---- MODULE Spec2Model ----
(***************************************************************************)
(* State-machine model of the CoDiPack Jacobian tape: the identifier       *)
(* managers (Linear, Reuse), the statement and argument streams            *)
(* (BlockData), JacobianBaseTape's recording entry points and the forward  *)
(* and reverse replay over the adjoint vector.                             *)
(***************************************************************************)
EXTENDS Integers, Sequences, FiniteSets, TLC

\* ---------------------------------------------------------------- bounds
\* Number of program variables (active values owned by the caller).
NVars == 2
\* Config::ChunkSize: capacity both streams are constructed with.
ChunkSize == 2
\* Cap on the identifier counter (guards the growing operations).
MaxIndex == 2
\* Cap on the magnitude of adjoint/tangent values kept in the vector.
MaxAdj == 2
\* Largest magnitude of an accumulated partial.
MaxJac == 2

\* ------------------------------------------------------ program constants
UnusedIndex == 0
InvalidIndex == -1
StatementInputTag == 255

Vars == 1..NVars
\* The variable a ReferenceActiveType is bound to (xRef = x[0] in the test).
RefVar == 1
\* Primal values an expression or a passive right-hand side evaluates to.
Values == {1, 2}

VARIABLES
  policy,    \* "Linear" or "Reuse": the index manager the tape is built with
  active,    \* tape activity (isActive())
  ident,     \* ident[v]: identifier stored in program variable v
  value,     \* value[v]: primal value stored in program variable v
  refJac,    \* ReferenceActiveType::jacobian, the scratch accumulator
  count,     \* index manager: largest identifier created so far
  freeList,  \* index manager (Reuse): freed identifiers, last in first out
  stmtData,  \* statement chunk: the entries written so far
  stmtUsed,  \* statement chunk: used size
  stmtCap,   \* statement chunk: allocated size
  jacData,   \* argument (Jacobian) chunk: the entries written so far
  jacUsed,   \* argument chunk: used size
  jacCap,    \* argument chunk: allocated size
  adjoints,  \* the adjoint vector; slot of identifier i is adjoints[i+1]
  savedPos,  \* a position the caller captured with getPosition()
  err,       \* "none", or the fatal condition the last call ended with
  last,      \* the call that produced this state
  listeners, \* EventSystem::listeners: whether callbacks are registered
  config,    \* the build: Config::HighLevelEvents, Config::LowLevelEvents and
             \* CODI_RemoveDuplicateJacobianArguments (high, low, merge)
  counters,  \* listener invocations so far, by kind of event
  run        \* the event test driver: the run it is in and its place in it

vars == <<policy, active, ident, value, refJac, count, freeList, stmtData,
          stmtUsed, stmtCap, jacData, jacUsed, jacCap, adjoints, savedPos,
          err, last, listeners, config, counters, run>>

\* The tape, its index manager, the program's variables and the call record:
\* everything but the event layer.
coreVars == <<policy, active, ident, value, refJac, count, freeList, stmtData,
              stmtUsed, stmtCap, jacData, jacUsed, jacCap, adjoints, savedPos,
              err, last>>

eventVars == <<listeners, config, counters, run>>

tapeVars == <<stmtData, stmtUsed, stmtCap, jacData, jacUsed, jacCap>>

IsLinear == policy = "Linear"

\* ---------------------------------------------------------------- helpers
Zeros(n) == [i \in 1..n |-> 0]

\* std::vector::resize: keeps the common prefix, value-initialises new slots.
Resize(vec, n) == [i \in 1..n |-> IF i <= Len(vec) THEN vec[i] ELSE 0]

\* Chunk::pushData: writes the entry at the used size (the caller advances it).
WriteAt(data, pos, e) ==
  IF pos < Len(data) THEN [data EXCEPT ![pos + 1] = e] ELSE Append(data, e)

\* ---------------------------------------------------------- index manager
\* The manager's state is the pair (count, freeList); the operations return
\* the new manager state and the new value of the identifier passed by
\* reference.
IM(c, f, id) == [count |-> c, free |-> f, id |-> id]

\* A free list that hands out its last identifier and keeps it listed.
PopOrGrowKeepsListed(c, f) ==
  IF f # <<>> THEN IM(c, f, f[Len(f)])
  ELSE IM(c + 1, f, c + 1)

\* A free list that hands out the unused sentinel when it is empty.
PopOrGrowNoGrow(c, f) ==
  IF f # <<>> THEN IM(c, SubSeq(f, 1, Len(f) - 1), f[Len(f)])
  ELSE IM(c, f, UnusedIndex)

\* Takes an identifier from the free list, or creates the next one.
PopOrGrow(c, f) ==
  IF f # <<>> THEN IM(c, SubSeq(f, 1, Len(f) - 1), f[Len(f)])
  ELSE IM(c + 1, f, c + 1)

\* freeIndex that takes the counter back when the largest identifier is
\* freed.
FreeIndexShrinks(c, f, id) ==
  IF IsLinear THEN IM(c, f, UnusedIndex)
  ELSE IF id # UnusedIndex
       THEN IF id = c THEN IM(c - 1, f, UnusedIndex) ELSE IM(c, Append(f, id), UnusedIndex)
       ELSE IM(c, f, id)

FreeIndex(c, f, id) ==
  IF IsLinear THEN IM(c, f, UnusedIndex)
  ELSE IF id # UnusedIndex THEN IM(c, Append(f, id), UnusedIndex)
  ELSE IM(c, f, id)

AssignIndex(c, f, id) ==
  IF IsLinear THEN IM(c + 1, f, c + 1)
  ELSE IF id = UnusedIndex THEN PopOrGrow(c, f)
  ELSE IM(c, f, id)

AssignUnusedIndex(c, f, id) ==
  IF IsLinear THEN IM(c + 1, f, c + 1)
  ELSE LET fr == FreeIndex(c, f, id) IN PopOrGrow(fr.count, fr.free)

CopyIndex(c, f, lhs, rhs) ==
  IF IsLinear THEN IM(c, f, rhs)
  ELSE IF rhs = UnusedIndex THEN FreeIndex(c, f, lhs)
  ELSE AssignIndex(c, f, lhs)

GetLargestAssignedIndex == count

\* True when an assign call cannot push the counter over the model's cap.
CanAssign(id) ==
  IF IsLinear THEN count < MaxIndex
  ELSE (id # UnusedIndex \/ freeList # <<>> \/ count < MaxIndex)

\* ------------------------------------------------------------ expressions
\* What the expression front end presents to store(): the primal value and,
\* per active-type leaf in traversal order, the leaf (a variable, or the
\* ReferenceActiveType bound to RefVar) and the partial derivative along the
\* path to it (finite or not).
Leaf(r, v, j, fin) == [ref |-> r, v |-> v, jac |-> j, finite |-> fin]

isTotalFinite(leaf) == leaf.finite
isTotalZero(x) == x = 0

\* PushJacobianLogic that pushes a reference leaf like any other leaf, once
\* per path.
RECURSIVE PushJacobianLogicPerPath(_, _, _)
PushJacobianLogicPerPath(leaves, k, st) ==
  IF k > Len(leaves) THEN st
  ELSE LET lf == leaves[k]
           id == ident[lf.v]
           nx == IF id # 0 /\ isTotalFinite(lf) /\ ~isTotalZero(lf.jac)
                 THEN [st EXCEPT !.data = WriteAt(st.data, st.used, [jac |-> lf.jac, id |-> id]),
                                 !.used = st.used + 1]
                 ELSE st
       IN PushJacobianLogicPerPath(leaves, k + 1, nx)

\* PushJacobianLogic over the leaves from k on; st = [data, used, acc] is the
\* argument chunk and the reference's accumulator.
RECURSIVE PushJacobianLogic(_, _, _)
PushJacobianLogic(leaves, k, st) ==
  IF k > Len(leaves) THEN st
  ELSE LET lf == leaves[k]
           id == ident[lf.v]
           nx == IF lf.ref
                 THEN IF isTotalFinite(lf)
                      THEN [st EXCEPT !.acc = st.acc + lf.jac]
                      ELSE st
                 ELSE IF id # 0 /\ isTotalFinite(lf) /\ ~isTotalZero(lf.jac)
                      THEN [st EXCEPT !.data = WriteAt(st.data, st.used, [jac |-> lf.jac, id |-> id]),
                                      !.used = st.used + 1]
                      ELSE st
       IN PushJacobianLogic(leaves, k + 1, nx)

\* PushDelayedJacobianLogic: visits every term again, flushes the reference.
RECURSIVE PushDelayedJacobianLogic(_, _, _)
PushDelayedJacobianLogic(leaves, k, st) ==
  IF k > Len(leaves) THEN st
  ELSE LET lf == leaves[k]
           id == ident[lf.v]
           nx == IF lf.ref /\ id # 0 /\ ~isTotalZero(st.acc)
                 THEN [data |-> WriteAt(st.data, st.used, [jac |-> st.acc, id |-> id]),
                       used |-> st.used + 1,
                       acc |-> 0]
                 ELSE st
       IN PushDelayedJacobianLogic(leaves, k + 1, nx)

\* The entry of identifier i in the merged statement: the partials of all
\* entries of i, summed.
Merged(entries, i) ==
  LET sum[k \in 0..Len(entries)] ==
        IF k = 0 THEN 0
        ELSE sum[k - 1] + (IF entries[k].id = i THEN entries[k].jac ELSE 0)
  IN [jac |-> sum[Len(entries)], id |-> i]

\* DuplicateJacobianRemover::storeData: the entries collected for one
\* statement go to the argument stream, one entry per identifier in the order
\* of the identifiers, with the partials of the identifier summed.
storeData(entries, st) ==
  LET ids == {entries[k].id : k \in DOMAIN entries}
      put[i \in 0..MaxIndex] ==
        IF i = 0 THEN st
        ELSE IF i \in ids
             THEN [put[i - 1] EXCEPT !.data = WriteAt(@, put[i - 1].used, Merged(entries, i)),
                                     !.used = @ + 1]
             ELSE put[i - 1]
  IN put[MaxIndex]

\* pushJacobians: both logics on insertVector, which is jacobianData, or
\* with CODI_RemoveDuplicateJacobianArguments jacobianSorter, whose storeData
\* then commits to jacobianData.
pushJacobians(leaves) ==
  IF config.merge
  THEN LET sorter == PushDelayedJacobianLogic(leaves, 1,
                       PushJacobianLogic(leaves, 1, [data |-> <<>>, used |-> 0, acc |-> refJac]))
       IN storeData(SubSeq(sorter.data, 1, sorter.used),
                    [data |-> jacData, used |-> jacUsed, acc |-> sorter.acc])
  ELSE PushDelayedJacobianLogic(leaves, 1,
         PushJacobianLogic(leaves, 1, [data |-> jacData, used |-> jacUsed, acc |-> refJac]))

\* The accumulated partial of the reference stays within the modelled range.
JacWithin(leaves) ==
  LET acc == PushJacobianLogic(leaves, 1, [data |-> jacData, used |-> jacUsed, acc |-> refJac]).acc
  IN acc >= -MaxJac /\ acc <= MaxJac

\* Impl::pushStmtData: Linear stores the argument count only, Reuse the
\* output identifier and the argument count.
StmtEntry(id, n) == [lhs |-> IF IsLinear THEN 0 ELSE id, n |-> n]

Fatal(what) == err' = what

\* The call just made: the entry point, the variable it was made on, the
\* identifier that variable held when the call was made, and a count (pushed
\* arguments for a store).
Call(op, v, n) ==
  [op |-> op, v |-> v, id |-> IF v \in Vars THEN ident[v] ELSE 0, n |-> n]

\* BlockData::reserveItems: the assertion on the allocated size.  The handle
\* it returns is the used size; the stream keeps no record of the count.
reserveItems(used, cap, items) == used + items <= cap

\* getPushedDataCount that takes the used size for the count.
getPushedDataCountFromZero(used, startPos) == used

\* BlockData::getPushedDataCount for the handle startPos.
getPushedDataCount(used, startPos) == used - startPos

\* ------------------------------------------------------------- recording
\* The identifier step of store that keeps the output's identifier when no
\* argument was pushed.
StoreIndexKeep(numberOfArguments, c, f, id) ==
  IF 0 # numberOfArguments THEN AssignIndex(c, f, id) ELSE IM(c, f, id)

\* The identifier step of store on an active tape: a statement with
\* arguments gets an identifier, one without frees the output's.
StoreIndex(numberOfArguments, c, f, id) ==
  IF 0 # numberOfArguments THEN AssignIndex(c, f, id) ELSE FreeIndex(c, f, id)

\* store(lhs, rhs) for an expression right-hand side; op names the entry
\* point that was called (the copy overload forwards to this one).
StoreImpl(op, lhs, leaves, val) ==
  /\ err = "none"
  /\ IF active
     THEN IF ~(stmtUsed + 1 <= stmtCap /\ jacUsed + Len(leaves) <= jacCap)
          THEN \* reserveItems: codiAssert fails
               /\ Fatal("ContractViolation")
               /\ UNCHANGED <<ident, value, refJac, count, freeList, tapeVars>>
               /\ last' = Call(op, lhs, 0)
          ELSE LET st == pushJacobians(leaves)
                   numberOfArguments == getPushedDataCount(st.used, jacUsed)
               IN /\ CanAssign(ident[lhs])
                  /\ JacWithin(leaves)
                  /\ jacData' = st.data
                  /\ jacUsed' = st.used
                  /\ refJac' = st.acc
                  /\ LET a == StoreIndex(numberOfArguments, count, freeList, ident[lhs])
                     IN /\ count' = a.count
                        /\ freeList' = a.free
                        /\ ident' = [ident EXCEPT ![lhs] = a.id]
                        /\ IF 0 # numberOfArguments
                           THEN /\ stmtData' = WriteAt(stmtData, stmtUsed, StmtEntry(a.id, numberOfArguments))
                                /\ stmtUsed' = stmtUsed + 1
                           ELSE UNCHANGED <<stmtData, stmtUsed>>
                  /\ value' = [value EXCEPT ![lhs] = val]
                  /\ UNCHANGED <<stmtCap, jacCap, err>>
                  /\ last' = Call(op, lhs, numberOfArguments)
     ELSE LET a == FreeIndex(count, freeList, ident[lhs])
          IN /\ count' = a.count
             /\ freeList' = a.free
             /\ ident' = [ident EXCEPT ![lhs] = a.id]
             /\ value' = [value EXCEPT ![lhs] = val]
             /\ UNCHANGED <<refJac, tapeVars, err>>
             /\ last' = Call(op, lhs, 0)
  /\ UNCHANGED <<policy, active, adjoints, savedPos>>


StoreExpr(lhs, leaves, val) == StoreImpl("store", lhs, leaves, val)

\* IndexManager::CopyNeedsStatement and Config::CopyOptimization.
CopyNeedsStatement == ~IsLinear
CopyOptimization == TRUE

\* The copy overload that takes the copyIndex branch under every policy.
StoreCopyAlwaysCopyIndex(lhs, rhs) ==
  /\ err = "none"
  /\ LET a == IF active
              THEN CopyIndex(count, freeList, ident[lhs], ident[rhs])
              ELSE FreeIndex(count, freeList, ident[lhs])
     IN /\ count' = a.count
        /\ freeList' = a.free
        /\ ident' = [ident EXCEPT ![lhs] = a.id]
  /\ value' = [value EXCEPT ![lhs] = value[rhs]]
  /\ last' = Call("copy", lhs, 0)
  /\ UNCHANGED <<policy, active, refJac, tapeVars, adjoints, savedPos, err>>

\* store(lhs, rhs) for a right-hand side that is itself a variable.
StoreCopy(lhs, rhs) ==
  IF active /\ (CopyNeedsStatement \/ ~CopyOptimization)
  THEN StoreImpl("copy", lhs, <<Leaf(FALSE, rhs, 1, TRUE)>>, value[rhs])
  ELSE /\ err = "none"
       /\ LET a == IF active
                   THEN CopyIndex(count, freeList, ident[lhs], ident[rhs])
                   ELSE FreeIndex(count, freeList, ident[lhs])
          IN /\ count' = a.count
             /\ freeList' = a.free
             /\ ident' = [ident EXCEPT ![lhs] = a.id]
       /\ value' = [value EXCEPT ![lhs] = value[rhs]]
       /\ last' = Call("copy", lhs, 0)
       /\ UNCHANGED <<policy, active, refJac, tapeVars, adjoints, savedPos, err>>

\* A passive store that writes the value and keeps the identifier.
StorePassiveKeepsIndex(lhs, val) ==
  /\ err = "none"
  /\ value' = [value EXCEPT ![lhs] = val]
  /\ last' = Call("passive", lhs, 0)
  /\ UNCHANGED <<policy, active, ident, count, freeList, refJac, tapeVars, adjoints,
                 savedPos, err>>

\* store(lhs, rhs) for a passive right-hand side.
StorePassive(lhs, val) ==
  /\ err = "none"
  /\ LET a == FreeIndex(count, freeList, ident[lhs])
     IN /\ count' = a.count
        /\ freeList' = a.free
        /\ ident' = [ident EXCEPT ![lhs] = a.id]
  /\ value' = [value EXCEPT ![lhs] = val]
  /\ last' = Call("passive", lhs, 0)
  /\ UNCHANGED <<policy, active, refJac, tapeVars, adjoints, savedPos, err>>

\* registerInput that assigns the identifier and pushes no input statement
\* under either index manager.
registerInputNoStatement(v) ==
  /\ err = "none"
  /\ CanAssign(UnusedIndex)
  /\ LET a == AssignUnusedIndex(count, freeList, ident[v])
     IN /\ count' = a.count
        /\ freeList' = a.free
        /\ ident' = [ident EXCEPT ![v] = a.id]
  /\ last' = Call("registerInput", v, 0)
  /\ UNCHANGED <<policy, active, value, refJac, tapeVars, adjoints, savedPos, err>>

registerInput(v) ==
  /\ err = "none"
  /\ CanAssign(UnusedIndex)
  /\ LET a == AssignUnusedIndex(count, freeList, ident[v])
     IN /\ count' = a.count
        /\ freeList' = a.free
        /\ ident' = [ident EXCEPT ![v] = a.id]
        /\ IF IsLinear
           THEN IF stmtUsed + 1 <= stmtCap
                THEN /\ stmtData' = WriteAt(stmtData, stmtUsed, StmtEntry(a.id, StatementInputTag))
                     /\ stmtUsed' = stmtUsed + 1
                     /\ UNCHANGED err
                ELSE /\ Fatal("ContractViolation")
                     /\ UNCHANGED <<stmtData, stmtUsed>>
           ELSE UNCHANGED <<stmtData, stmtUsed, err>>
  /\ last' = Call("registerInput", v, 0)
  /\ UNCHANGED <<policy, active, value, refJac, stmtCap, jacData, jacUsed, jacCap,
                 adjoints, savedPos>>

\* destroyIdentifier: the variable goes out of scope and hands its identifier
\* back; the slot is then a variable initIdentifier has set up afresh.
destroyIdentifier(v) ==
  /\ err = "none"
  /\ LET a == FreeIndex(count, freeList, ident[v])
     IN /\ count' = a.count
        /\ freeList' = a.free
        /\ ident' = [ident EXCEPT ![v] = a.id]
  /\ last' = Call("destroyIdentifier", v, 0)
  /\ UNCHANGED <<policy, active, value, refJac, tapeVars, adjoints, savedPos, err>>

\* The copy overload gated as `needs /\ ~optimization`.
StoreAssignConjunctiveGate(AssignNeedsStatement, AssignOptimization, lhs, rhs) ==
  IF active /\ (AssignNeedsStatement /\ ~AssignOptimization)
  THEN StoreImpl("copy", lhs, <<Leaf(FALSE, rhs, 1, TRUE)>>, value[rhs])
  ELSE /\ err = "none"
       /\ LET a == IF active
                   THEN CopyIndex(count, freeList, ident[lhs], ident[rhs])
                   ELSE FreeIndex(count, freeList, ident[lhs])
          IN /\ count' = a.count
             /\ freeList' = a.free
             /\ ident' = [ident EXCEPT ![lhs] = a.id]
       /\ value' = [value EXCEPT ![lhs] = value[rhs]]
       /\ last' = Call("copy", lhs, 0)
       /\ UNCHANGED <<policy, active, refJac, tapeVars, adjoints, savedPos, err>>

\* store(lhs, rhs) for a variable right-hand side in the earlier revision of
\* the tape, gated by IndexManager::AssignNeedsStatement and
\* Config::AssignOptimization (the values a build gives the two flags).
StoreAssign(AssignNeedsStatement, AssignOptimization, lhs, rhs) ==
  IF active /\ (AssignNeedsStatement \/ ~AssignOptimization)
  THEN StoreImpl("copy", lhs, <<Leaf(FALSE, rhs, 1, TRUE)>>, value[rhs])
  ELSE /\ err = "none"
       /\ LET a == IF active
                   THEN CopyIndex(count, freeList, ident[lhs], ident[rhs])
                   ELSE FreeIndex(count, freeList, ident[lhs])
          IN /\ count' = a.count
             /\ freeList' = a.free
             /\ ident' = [ident EXCEPT ![lhs] = a.id]
       /\ value' = [value EXCEPT ![lhs] = value[rhs]]
       /\ last' = Call("copy", lhs, 0)
       /\ UNCHANGED <<policy, active, refJac, tapeVars, adjoints, savedPos, err>>

\* ----------------------------------------------------------- manual push
\* What the argument stream's latest reserveItems allows, as far as the calls
\* made tell: the reserved count n and the pushes made since, or n = -1 when
\* a call other than a push came in between.  A stream nothing was reserved
\* on allows no push.
Allowance ==
  IF last.op = "storeManual" THEN [n |-> last.n, pushed |-> 0]
  ELSE IF last.op = "pushJacobiManual" THEN [n |-> last.n, pushed |-> last.id]
  ELSE IF last.op = "init" THEN [n |-> 0, pushed |-> 0]
  ELSE [n |-> -1, pushed |-> 0]

\* storeManual(lhsValue, lhsIndex, size): reserves one statement and size
\* argument entries, assigns the output's identifier and commits the
\* statement; the entries follow through pushJacobiManual.
storeManual(lhs, size) ==
  /\ err = "none"
  /\ IF ~(reserveItems(stmtUsed, stmtCap, 1) /\ reserveItems(jacUsed, jacCap, size))
     THEN /\ Fatal("ContractViolation")
          /\ UNCHANGED <<ident, count, freeList, stmtData, stmtUsed>>
     ELSE /\ CanAssign(ident[lhs])
          /\ LET a == AssignIndex(count, freeList, ident[lhs])
             IN /\ count' = a.count
                /\ freeList' = a.free
                /\ ident' = [ident EXCEPT ![lhs] = a.id]
                /\ stmtData' = WriteAt(stmtData, stmtUsed, StmtEntry(a.id, size))
                /\ stmtUsed' = stmtUsed + 1
          /\ UNCHANGED err
  /\ last' = Call("storeManual", lhs, size)
  /\ UNCHANGED <<policy, active, value, refJac, stmtCap, jacData, jacUsed, jacCap,
                 adjoints, savedPos>>

\* pushJacobiManual(jacobi, value, index): BlockData::pushData on the
\* argument stream, which hands the entry to the chunk unchecked.  A push on
\* a full chunk writes past the allocated arrays.  The call is recorded with
\* the pushes made since the latest reservation (id) and its count (n).
pushJacobiManual(jacobi, v) ==
  /\ err = "none"
  /\ IF jacUsed < jacCap
     THEN /\ jacData' = WriteAt(jacData, jacUsed, [jac |-> jacobi, id |-> ident[v]])
          /\ jacUsed' = jacUsed + 1
          /\ UNCHANGED err
     ELSE /\ Fatal("OutOfBounds")
          /\ UNCHANGED <<jacData, jacUsed>>
  /\ last' = [op |-> "pushJacobiManual", v |-> v, id |-> Allowance.pushed + 1,
              n |-> Allowance.n]
  /\ UNCHANGED <<policy, active, ident, value, refJac, count, freeList, stmtData,
                 stmtUsed, stmtCap, jacCap, adjoints, savedPos>>

setActive ==
  /\ err = "none" /\ ~active
  /\ active' = TRUE
  /\ last' = Call("setActive", 0, 0)
  /\ UNCHANGED <<policy, ident, value, refJac, count, freeList, tapeVars, adjoints,
                 savedPos, err>>

setPassive ==
  /\ err = "none" /\ active
  /\ active' = FALSE
  /\ last' = Call("setPassive", 0, 0)
  /\ UNCHANGED <<policy, ident, value, refJac, count, freeList, tapeVars, adjoints,
                 savedPos, err>>

\* -------------------------------------------------------------- positions
\* Position of the argument stream, the statement stream nested in it and the
\* index manager nested in that (Linear: the counter; Reuse: empty).
Pos(j, s, i) == [jac |-> j, stmt |-> s, idx |-> i]

getPosition == Pos(jacUsed, stmtUsed, IF IsLinear THEN count ELSE 0)
getZeroPosition == Pos(0, 0, 0)

capturePosition ==
  /\ err = "none"
  /\ savedPos # getPosition
  /\ savedPos' = getPosition
  /\ last' = Call("getPosition", 0, 0)
  /\ UNCHANGED <<policy, active, ident, value, refJac, count, freeList, tapeVars,
                 adjoints, err>>

\* Chunk::setUsedSize: entries past the used size are no longer part of the
\* stream; a used size past the written entries exposes memory that holds no
\* recorded entry.
SetUsedSize(data, n) == IF n <= Len(data) THEN SubSeq(data, 1, n) ELSE data

\* BlockData::resetTo that leaves its own used size alone and resets the
\* nested levels only.
ResetToImplNoSetUsedSize(pos) ==
  IF ~(pos.jac <= jacCap)
  THEN /\ Fatal("ContractViolation")
       /\ UNCHANGED <<jacData, jacUsed, stmtData, stmtUsed, count>>
  ELSE /\ UNCHANGED <<jacData, jacUsed>>
       /\ stmtUsed' = pos.stmt
       /\ stmtData' = SetUsedSize(stmtData, pos.stmt)
       /\ count' = IF IsLinear THEN pos.idx ELSE count
       /\ UNCHANGED err

\* BlockData::resetTo that sets its own used size and leaves the nested
\* levels alone.
ResetToImplNoNested(pos) ==
  /\ jacUsed' = pos.jac
  /\ jacData' = SetUsedSize(jacData, pos.jac)
  /\ UNCHANGED <<stmtData, stmtUsed, count, err>>

\* BlockData::resetTo on the argument stream, then on the nested levels
\* (statement stream, index manager).  A position past the used size passes
\* the assertion, which compares with the capacity; the run ends there with
\* the exposed entries unread.
ResetToImpl(pos) ==
  IF ~(pos.jac <= jacCap)
  THEN /\ Fatal("ContractViolation")
       /\ UNCHANGED <<jacData, jacUsed, stmtData, stmtUsed, count>>
  ELSE /\ jacUsed' = pos.jac
       /\ jacData' = SetUsedSize(jacData, pos.jac)
       /\ IF ~(pos.stmt <= stmtCap)
          THEN /\ Fatal("ContractViolation")
               /\ UNCHANGED <<stmtData, stmtUsed, count>>
          ELSE /\ stmtUsed' = pos.stmt
               /\ stmtData' = SetUsedSize(stmtData, pos.stmt)
               /\ count' = IF IsLinear THEN pos.idx ELSE count
               /\ err' = IF pos.jac > jacUsed \/ pos.stmt > stmtUsed
                         THEN "StaleEntries" ELSE err

\* clearAdjoints() as a release of the vector: one zero slot is left.
clearAdjointsVecReleasing(adj) == Zeros(1)

\* clearAdjoints(): every slot is set to Gradient().
clearAdjointsVec(adj) == [i \in 1..Len(adj) |-> 0]

resetTo ==
  /\ err = "none"
  /\ savedPos # getPosition
  /\ ResetToImpl(savedPos)
  /\ last' = Call("resetTo", 0, 0)
  /\ UNCHANGED <<policy, active, ident, value, refJac, freeList, stmtCap, jacCap,
                 adjoints, savedPos>>

reset(resetAdjoints) ==
  /\ err = "none"
  /\ ResetToImpl(getZeroPosition)
  /\ adjoints' = IF resetAdjoints THEN clearAdjointsVec(adjoints) ELSE adjoints
  /\ last' = Call("reset", 0, 0)
  /\ UNCHANGED <<policy, active, ident, value, refJac, freeList, stmtCap, jacCap,
                 savedPos>>

\* ---------------------------------------------------------- adjoint vector
resizeAdjointsVector(adj) == Resize(adj, GetLargestAssignedIndex + 1)

checkAdjointSize(adj, identifier) ==
  IF identifier >= Len(adj) THEN resizeAdjointsVector(adj) ELSE adj

InVector(adj, identifier) == identifier >= 0 /\ identifier < Len(adj)

\* gradient(identifier) = g through the non-const accessor: the size check,
\* then the write through the returned reference.  An identifier the resized
\* vector still does not cover makes the reference dangle.
gradient(v, g) ==
  /\ err = "none"
  /\ LET adj == checkAdjointSize(adjoints, ident[v])
     IN IF InVector(adj, ident[v])
        THEN /\ adjoints' = [adj EXCEPT ![ident[v] + 1] = g]
             /\ UNCHANGED err
        ELSE /\ adjoints' = adj
             /\ Fatal("OutOfBounds")
  /\ last' = Call("gradient", v, Len(adjoints))
  /\ UNCHANGED <<policy, active, ident, value, refJac, count, freeList, tapeVars,
                 savedPos>>

clearAdjoints ==
  /\ err = "none"
  /\ adjoints' = clearAdjointsVec(adjoints)
  /\ last' = Call("clearAdjoints", 0, Len(adjoints))
  /\ UNCHANGED <<policy, active, ident, value, refJac, count, freeList, tapeVars,
                 savedPos, err>>

deleteAdjointVector ==
  /\ err = "none"
  /\ adjoints' = Resize(adjoints, 1)
  /\ adjoints' # adjoints
  /\ last' = Call("deleteAdjointVector", 0, Len(adjoints))
  /\ UNCHANGED <<policy, active, ident, value, refJac, count, freeList, tapeVars,
                 savedPos, err>>

\* ---------------------------------------------------------- data management
\* Chunk::resize: the allocation holds totalSize entries; entries past it are
\* gone.
ChunkResize(data, totalSize) ==
  IF totalSize < Len(data) THEN SubSeq(data, 1, totalSize) ELSE data

\* resetHard that keeps what the streams had allocated.
resetHardKeepsCapacity ==
  /\ err = "none"
  /\ ResetToImpl(getZeroPosition)
  /\ adjoints' = clearAdjointsVec(adjoints)
  /\ last' = Call("resetHard", 0, 0)
  /\ UNCHANGED <<policy, active, ident, value, refJac, freeList, stmtCap, jacCap,
                 savedPos>>

\* resetHard: a reset, then BlockData::resetHard on the argument stream and
\* on the statement stream nested in it: chunk.resize(0).
resetHard ==
  /\ err = "none"
  /\ ResetToImpl(getZeroPosition)
  /\ jacCap' = 0
  /\ stmtCap' = 0
  /\ adjoints' = clearAdjointsVec(adjoints)
  /\ last' = Call("resetHard", 0, 0)
  /\ UNCHANGED <<policy, active, ident, value, refJac, freeList, savedPos>>

TapeParameters == {"AdjointSize", "JacobianSize", "LargestIdentifier", "StatementSize"}

\* getParameter(parameter): the size of the adjoint vector, getDataSize() of
\* a stream (the used size of its chunk), or the largest assigned identifier.
getParameter(parameter) ==
  CASE parameter = "AdjointSize" -> Len(adjoints)
    [] parameter = "JacobianSize" -> jacUsed
    [] parameter = "LargestIdentifier" -> GetLargestAssignedIndex
    [] parameter = "StatementSize" -> stmtUsed

\* setParameter that takes LargestIdentifier as the counter of the index
\* manager.
setParameterSetsLargest(parameter, val) ==
  /\ err = "none"
  /\ adjoints' = IF parameter = "AdjointSize" THEN Resize(adjoints, val) ELSE adjoints
  /\ jacCap' = IF parameter = "JacobianSize" THEN val ELSE jacCap
  /\ jacData' = IF parameter = "JacobianSize" THEN ChunkResize(jacData, val) ELSE jacData
  /\ stmtCap' = IF parameter = "StatementSize" THEN val ELSE stmtCap
  /\ stmtData' = IF parameter = "StatementSize" THEN ChunkResize(stmtData, val) ELSE stmtData
  /\ count' = IF parameter = "LargestIdentifier" THEN val ELSE count
  /\ last' = Call("setParameter", 0, val)
  /\ UNCHANGED <<policy, active, ident, value, refJac, freeList, stmtUsed, jacUsed,
                 savedPos, err>>

\* setParameter(parameter, value): the vector or a stream is resized;
\* LargestIdentifier raises CODI_EXCEPTION.
setParameter(parameter, val) ==
  /\ err = "none"
  /\ adjoints' = IF parameter = "AdjointSize" THEN Resize(adjoints, val) ELSE adjoints
  /\ jacCap' = IF parameter = "JacobianSize" THEN val ELSE jacCap
  /\ jacData' = IF parameter = "JacobianSize" THEN ChunkResize(jacData, val) ELSE jacData
  /\ stmtCap' = IF parameter = "StatementSize" THEN val ELSE stmtCap
  /\ stmtData' = IF parameter = "StatementSize" THEN ChunkResize(stmtData, val) ELSE stmtData
  /\ err' = IF parameter = "LargestIdentifier" THEN "GetOnlyParameter" ELSE err
  /\ last' = Call("setParameter", 0, val)
  /\ UNCHANGED <<policy, active, ident, value, refJac, count, freeList, stmtUsed, jacUsed,
                 savedPos>>

\* CODI_EXCEPTION: the call ends with the condition raised to its caller;
\* the tape is as the call found it.
Raised(op, what) == [op |-> op, v |-> 0, id |-> 0, n |-> 0, raised |-> what]

\* primal(identifier) that ends the tape with the condition.
primalFatal(identifier) ==
  /\ err = "none"
  /\ err' = "UnsupportedOperation"
  /\ last' = Raised("primal", "UnsupportedOperation")
  /\ UNCHANGED <<policy, active, ident, value, refJac, count, freeList, tapeVars,
                 adjoints, savedPos>>

\* primal(identifier), both overloads: CODI_EXCEPTION and nothing else.
primal(identifier) ==
  /\ err = "none"
  /\ last' = Raised("primal", "UnsupportedOperation")
  /\ UNCHANGED <<policy, active, ident, value, refJac, count, freeList, tapeVars,
                 adjoints, savedPos, err>>

\* evaluatePrimal(start, end): CODI_EXCEPTION and nothing else.
evaluatePrimal(start, end) ==
  /\ err = "none"
  /\ last' = Raised("evaluatePrimal", "UnsupportedOperation")
  /\ UNCHANGED <<policy, active, ident, value, refJac, count, freeList, tapeVars,
                 adjoints, savedPos, err>>

\* ------------------------------------------------------------------ replay
\* The state a replay threads through the statements: the vector, the
\* position in the argument stream and whether a read or write left the
\* vector or the written part of the stream.
RS(adj, jpos, bad) == [adj |-> adj, jpos |-> jpos, bad |-> bad, log |-> <<>>]

\* One replayed statement as the replay saw it: its output, the output's
\* adjoint (tangent) when the statement was reached, its argument count, and
\* the statement's place, and the vector and argument position before and
\* after.
Step(s, lhs, lhsAdjoint, n, rs, nx) ==
  [stmt |-> s, lhs |-> lhs, lhsAdjoint |-> lhsAdjoint, n |-> n,
   adj |-> rs.adj, jpos |-> rs.jpos, adjAfter |-> nx.adj, jposAfter |-> nx.jpos]

Logged(rs, nx, s, lhs, n) ==
  [nx EXCEPT !.log = Append(rs.log, Step(s, lhs, rs.adj[lhs + 1], n, rs, nx))]

ArgReadable(data, p) == p >= 0 /\ p < Len(data)

\* The while loop of incrementAdjoints: entries cur-1 down to endPos.
RECURSIVE AdjointLoop(_, _, _, _, _)
AdjointLoop(data, adj, lhsAdjoint, endPos, cur) ==
  IF ~(endPos >= 0 /\ endPos < cur) THEN RS(adj, cur, FALSE)
  ELSE LET p == cur - 1
       IN IF ~ArgReadable(data, p) \/ ~InVector(adj, data[p + 1].id)
          THEN RS(adj, p, TRUE)
          ELSE AdjointLoop(data,
                 [adj EXCEPT ![data[p + 1].id + 1] = @ + data[p + 1].jac * lhsAdjoint],
                 lhsAdjoint, endPos, p)

\* incrementAdjoints that leaves the argument position where it is when it
\* skips a statement.
incrementAdjointsSkipStays(adj, lhsAdjoint, numberOfArguments, curJacobianPos) ==
  LET endJacobianPos == curJacobianPos - numberOfArguments
  IN IF ~isTotalZero(lhsAdjoint)
     THEN AdjointLoop(jacData, adj, lhsAdjoint, endJacobianPos, curJacobianPos)
     ELSE RS(adj, curJacobianPos, FALSE)

\* incrementAdjoints: a statement's reverse step.  endJacobianPos is unsigned
\* in the code; a negative value here stands for the wrapped one.
incrementAdjoints(adj, lhsAdjoint, numberOfArguments, curJacobianPos) ==
  LET endJacobianPos == curJacobianPos - numberOfArguments
  IN IF ~isTotalZero(lhsAdjoint)
     THEN AdjointLoop(jacData, adj, lhsAdjoint, endJacobianPos, curJacobianPos)
     ELSE RS(adj, endJacobianPos, FALSE)

\* Identifier of the output of the statement at stream position s (0-based):
\* stored with the statement under Reuse, implied by the place under Linear,
\* where adjPos is the index manager position that belongs to the statement.
LhsOf(s, adjPos) == IF IsLinear THEN adjPos ELSE stmtData[s + 1].lhs

\* A reverse replay that zeroes the output's adjoint once it has read it.
RECURSIVE internalEvaluateReverseClearing(_, _, _, _)
internalEvaluateReverseClearing(rs, curStmt, endStmt, curAdjPos) ==
  IF rs.bad \/ ~(curStmt > endStmt) THEN rs
  ELSE LET s == curStmt - 1
       IN IF ~(s >= 0 /\ s < Len(stmtData)) THEN [rs EXCEPT !.bad = TRUE]
          ELSE LET n == stmtData[s + 1].n
                   lhs == LhsOf(s, curAdjPos)
               IN IF IsLinear /\ n = StatementInputTag
                  THEN internalEvaluateReverseClearing(rs, s, endStmt, curAdjPos - 1)
                  ELSE IF ~InVector(rs.adj, lhs) THEN [rs EXCEPT !.bad = TRUE]
                  ELSE internalEvaluateReverseClearing(
                         Logged(rs, incrementAdjoints([rs.adj EXCEPT ![lhs + 1] = 0],
                                                      rs.adj[lhs + 1], n, rs.jpos), s, lhs, n),
                         s, endStmt, curAdjPos - 1)

\* Impl::internalEvaluateReverse: statements curStmt-1 down to endStmt.
RECURSIVE internalEvaluateReverse(_, _, _, _)
internalEvaluateReverse(rs, curStmt, endStmt, curAdjPos) ==
  IF rs.bad \/ ~(curStmt > endStmt) THEN rs
  ELSE LET s == curStmt - 1
       IN IF ~(s >= 0 /\ s < Len(stmtData)) THEN [rs EXCEPT !.bad = TRUE]
          ELSE LET n == stmtData[s + 1].n
                   lhs == LhsOf(s, curAdjPos)
               IN IF IsLinear /\ n = StatementInputTag
                  THEN internalEvaluateReverse(rs, s, endStmt, curAdjPos - 1)
                  ELSE IF ~InVector(rs.adj, lhs) THEN [rs EXCEPT !.bad = TRUE]
                  ELSE internalEvaluateReverse(
                         Logged(rs, incrementAdjoints(rs.adj, rs.adj[lhs + 1], n, rs.jpos), s, lhs, n),
                         s, endStmt, curAdjPos - 1)

\* The while loop of incrementTangents; lhs is the slot lhsAdjoint refers to.
RECURSIVE TangentLoop(_, _, _, _, _)
TangentLoop(data, adj, lhs, endPos, cur) ==
  IF ~(cur < endPos) THEN RS(adj, cur, FALSE)
  ELSE IF ~ArgReadable(data, cur) \/ ~InVector(adj, data[cur + 1].id)
       THEN RS(adj, cur, TRUE)
       ELSE TangentLoop(data,
              [adj EXCEPT ![lhs + 1] = @ + data[cur + 1].jac * adj[data[cur + 1].id + 1]],
              lhs, endPos, cur + 1)

\* incrementTangents whose loop stops one entry early.
incrementTangentsShort(adj, lhs, numberOfArguments, curJacobianPos) ==
  TangentLoop(jacData, adj, lhs, curJacobianPos + numberOfArguments - 1, curJacobianPos)

incrementTangents(adj, lhs, numberOfArguments, curJacobianPos) ==
  TangentLoop(jacData, adj, lhs, curJacobianPos + numberOfArguments, curJacobianPos)

\* Impl::internalEvaluateForward: statements curStmt up to endStmt-1.
RECURSIVE internalEvaluateForward(_, _, _, _)
internalEvaluateForward(rs, curStmt, endStmt, curAdjPos) ==
  IF rs.bad \/ ~(curStmt < endStmt) THEN rs
  ELSE IF ~(curStmt < Len(stmtData)) THEN [rs EXCEPT !.bad = TRUE]
  ELSE LET n == stmtData[curStmt + 1].n
           lhs == LhsOf(curStmt, curAdjPos + 1)
       IN IF IsLinear /\ n = StatementInputTag
          THEN internalEvaluateForward(rs, curStmt + 1, endStmt, curAdjPos + 1)
          ELSE IF ~InVector(rs.adj, lhs) THEN [rs EXCEPT !.bad = TRUE]
          ELSE internalEvaluateForward(
                 Logged(rs, incrementTangents(rs.adj, lhs, n, rs.jpos), curStmt, lhs, n),
                 curStmt + 1, endStmt, curAdjPos + 1)

WithinCap(adj) == \A i \in 1..Len(adj) : adj[i] >= -MaxAdj /\ adj[i] <= MaxAdj

\* BlockData's closing codiAssert left out.
ReplayOutcomeUnchecked(rs, reachedStmt, end) ==
  IF rs.bad THEN "OutOfBounds" ELSE "none"

\* What the replay ran into: a read outside the data, BlockData's closing
\* codiAssert(dataPos == end.data) on the statement or the argument level, or
\* nothing.
ReplayOutcome(rs, reachedStmt, end) ==
  IF rs.bad THEN "OutOfBounds"
  ELSE IF reachedStmt # end.stmt \/ rs.jpos # end.jac THEN "ContractViolation"
  ELSE "none"

\* The replay just made: id counts the statements with arguments that were
\* replayed on a non-zero output adjoint (tangent), n those on a zero one.
Replayed(op, log) ==
  [op |-> op, v |-> 0,
   id |-> Cardinality({i \in DOMAIN log : log[i].n > 0 /\ log[i].lhsAdjoint # 0}),
   n |-> Cardinality({i \in DOMAIN log : log[i].n > 0 /\ log[i].lhsAdjoint = 0})]

\* A reverse replay that consumes what it replays: the streams are cut back
\* to end.
evaluateConsuming(start, end) ==
  /\ err = "none"
  /\ LET adj == checkAdjointSize(adjoints, GetLargestAssignedIndex)
         rs == internalEvaluateReverse(RS(adj, start.jac, FALSE), start.stmt, end.stmt, start.idx)
         reached == IF start.stmt > end.stmt THEN end.stmt ELSE start.stmt
     IN /\ WithinCap(rs.adj)
        /\ adjoints' = rs.adj
        /\ err' = ReplayOutcome(rs, reached, end)
        /\ last' = Replayed("evaluate", rs.log)
        /\ stmtUsed' = reached
        /\ jacUsed' = rs.jpos
  /\ UNCHANGED <<policy, active, ident, value, refJac, count, freeList, stmtData, stmtCap,
                 jacData, jacCap, savedPos>>

\* evaluate(start, end) on the tape's own vector.
evaluate(start, end) ==
  /\ err = "none"
  /\ LET adj == checkAdjointSize(adjoints, GetLargestAssignedIndex)
         rs == internalEvaluateReverse(RS(adj, start.jac, FALSE), start.stmt, end.stmt, start.idx)
         reached == IF start.stmt > end.stmt THEN end.stmt ELSE start.stmt
     IN /\ WithinCap(rs.adj)
        /\ adjoints' = rs.adj
        /\ err' = ReplayOutcome(rs, reached, end)
        /\ last' = Replayed("evaluate", rs.log)
  /\ UNCHANGED <<policy, active, ident, value, refJac, count, freeList, tapeVars,
                 savedPos>>

\* evaluateForward(start, end) on the tape's own vector.
evaluateForward(start, end) ==
  /\ err = "none"
  /\ LET adj == checkAdjointSize(adjoints, GetLargestAssignedIndex)
         rs == internalEvaluateForward(RS(adj, start.jac, FALSE), start.stmt, end.stmt, start.idx)
         reached == IF start.stmt < end.stmt THEN end.stmt ELSE start.stmt
     IN /\ WithinCap(rs.adj)
        /\ adjoints' = rs.adj
        /\ err' = ReplayOutcome(rs, reached, end)
        /\ last' = Replayed("evaluateForward", rs.log)
  /\ UNCHANGED <<policy, active, ident, value, refJac, count, freeList, tapeVars,
                 savedPos>>

\* evaluateKeepState and evaluateForwardKeepState: on this tape, evaluate and
\* evaluateForward.
evaluateKeepState(start, end) == evaluate(start, end)

evaluateForwardKeepState(start, end) == evaluateForward(start, end)

\* -------------------------------------------------------------- algorithms
\* Algorithms<Type>: the Jacobian assembly over the tape.  A gradient of
\* vector width w is held as w scalar vectors, one per direction; direction
\* 0 is the tape's vector, the others are zero outside the algorithm because
\* every other operation of the model writes direction 0 only.
Forward == "Forward"
Reverse == "Reverse"

getEvaluationChoiceStrict(inputs, outputs) ==
  IF inputs < outputs THEN Forward ELSE Reverse

getEvaluationChoice(inputs, outputs) ==
  IF inputs <= outputs THEN Forward ELSE Reverse

\* gradient(identifier) const: the slot, or slot 0 for an identifier past
\* the size; an identifier equal to the size is read one past the end.
getGradient(adj, identifier) ==
  IF identifier > Len(adj) THEN [g |-> adj[1], bad |-> FALSE]
  ELSE IF InVector(adj, identifier) THEN [g |-> adj[identifier + 1], bad |-> FALSE]
  ELSE [g |-> 0, bad |-> TRUE]

\* GT::at(tape.gradient(identifier), curDim) = val on the w directions.
SetGradientAt(gs, identifier, curDim, val) ==
  LET sized == [d \in DOMAIN gs |-> checkAdjointSize(gs[d], identifier)]
  IN IF InVector(sized[1], identifier)
     THEN [gs |-> [sized EXCEPT ![curDim + 1][identifier + 1] = val], bad |-> FALSE]
     ELSE [gs |-> sized, bad |-> TRUE]

\* setGradientOnIdentifier: seeds the next w entries of identifiers from pos
\* on, entry pos + curDim in direction curDim; identifier 0 is skipped.
setGradientOnIdentifier(gs, pos, identifiers, val) ==
  LET w == Len(gs)
      loop[curDim \in 0..w] ==
        IF curDim = 0 THEN [gs |-> gs, bad |-> FALSE]
        ELSE LET before == loop[curDim - 1]
                 d == curDim - 1
             IN IF before.bad \/ ~(pos + d < Len(identifiers)) THEN before
                ELSE IF 0 # identifiers[pos + d + 1]
                     THEN SetGradientAt(before.gs, identifiers[pos + d + 1], d, val)
                     ELSE before
  IN loop[w]

\* evaluateKeepState and evaluateForwardKeepState on one direction: the size
\* check and the replay of evaluate and evaluateForward.
ReverseSweep(adj, start, end) ==
  LET sized == checkAdjointSize(adj, GetLargestAssignedIndex)
      rs == internalEvaluateReverse(RS(sized, start.jac, FALSE), start.stmt, end.stmt,
                                    start.idx)
      reached == IF start.stmt > end.stmt THEN end.stmt ELSE start.stmt
  IN [adj |-> rs.adj, err |-> ReplayOutcome(rs, reached, end)]

ForwardSweep(adj, start, end) ==
  LET sized == checkAdjointSize(adj, GetLargestAssignedIndex)
      rs == internalEvaluateForward(RS(sized, start.jac, FALSE), start.stmt, end.stmt,
                                    start.idx)
      reached == IF start.stmt < end.stmt THEN end.stmt ELSE start.stmt
  IN [adj |-> rs.adj, err |-> ReplayOutcome(rs, reached, end)]

\* The first error of the w directions of one sweep.
SweepErr(swept) ==
  IF \E d \in DOMAIN swept : swept[d].err = "OutOfBounds" THEN "OutOfBounds"
  ELSE IF \E d \in DOMAIN swept : swept[d].err # "none" THEN "ContractViolation"
  ELSE "none"

\* Config::ReversalZeroesAdjoints: the reverse replay keeps the adjoint of a
\* statement's output.
ReversalZeroesAdjoints == FALSE

\* clearAdjoints(start, end) on the w directions.
clearAdjointsRange(gs, start, end) == [d \in DOMAIN gs |-> clearAdjointsVec(gs[d])]

\* The state of a Jacobian assembly: the w directions, the matrix filled so
\* far (row i, column j at <<i, j>>, 0-based) and the error that stopped it.
CJ(gs, jac, e) == [gs |-> gs, jac |-> jac, err |-> e]

NoJacobian(inputSize, outputSize) ==
  [p \in (0..outputSize - 1) \X (0..inputSize - 1) |-> 0]

Sweeps(size, w) == (size + w - 1) \div w

\* The sweeps of the forward branch of computeJacobian: one per w inputs.
ForwardSweeps(gs0, start, end, input, output) ==
  LET w == Len(gs0)
      inputSize == Len(input)
      outputSize == Len(output)
      sweep[k \in 0..Sweeps(inputSize, w)] ==
        IF k = 0 THEN CJ(gs0, NoJacobian(inputSize, outputSize), "none")
        ELSE LET cj == sweep[k - 1]
                 j == (k - 1) * w
                 seeded == setGradientOnIdentifier(cj.gs, j, input, 1)
                 swept == [d \in 1..w |-> ForwardSweep(seeded.gs[d], start, end)]
                 gs == [d \in 1..w |-> swept[d].adj]
                 read == [p \in DOMAIN cj.jac |->
                            IF p[2] >= j /\ p[2] < j + w
                            THEN getGradient(gs[p[2] - j + 1], output[p[1] + 1])
                            ELSE [g |-> cj.jac[p], bad |-> FALSE]]
                 unseeded == setGradientOnIdentifier(gs, j, input, 0)
             IN IF cj.err # "none" THEN cj
                ELSE IF seeded.bad THEN CJ(seeded.gs, cj.jac, "OutOfBounds")
                ELSE IF SweepErr(swept) # "none" THEN CJ(gs, cj.jac, SweepErr(swept))
                ELSE IF \E p \in DOMAIN read : read[p].bad THEN CJ(gs, cj.jac, "OutOfBounds")
                ELSE IF unseeded.bad THEN CJ(unseeded.gs, cj.jac, "OutOfBounds")
                ELSE CJ(unseeded.gs, [p \in DOMAIN read |-> read[p].g], "none")
  IN sweep[Sweeps(inputSize, w)]

\* The forward branch without its closing clearAdjoints(end, start).
computeJacobianForwardNoClear(gs0, start, end, input, output) ==
  ForwardSweeps(gs0, start, end, input, output)

\* The forward branch of computeJacobian.
computeJacobianForward(gs0, start, end, input, output) ==
  LET done == ForwardSweeps(gs0, start, end, input, output)
  IN IF done.err = "none"
     THEN CJ(clearAdjointsRange(done.gs, end, start), done.jac, "none")
     ELSE done

\* Reading and zeroing the input gradients after one reverse sweep.
ReadInputs(gs, jac, i, input) ==
  LET w == Len(gs)
      inputSize == Len(input)
      loop[j \in 0..inputSize] ==
        IF j = 0 THEN CJ(gs, jac, "none")
        ELSE LET cj == loop[j - 1]
                 id == input[j]
                 read == [d \in 1..w |-> getGradient(cj.gs[d], id)]
                 sized == [d \in 1..w |-> checkAdjointSize(cj.gs[d], id)]
                 rows == {r \in i..(i + w - 1) : <<r, j - 1>> \in DOMAIN jac}
             IN IF cj.err # "none" THEN cj
                ELSE IF rows # {} /\ ((\E d \in 1..w : read[d].bad) \/ ~InVector(sized[1], id))
                     THEN CJ(sized, cj.jac, "OutOfBounds")
                ELSE CJ([d \in 1..w |->
                           IF i + d - 1 \in rows THEN [sized[d] EXCEPT ![id + 1] = 0]
                           ELSE IF rows # {} THEN sized[d] ELSE cj.gs[d]],
                        [p \in DOMAIN cj.jac |->
                           IF p[2] = j - 1 /\ p[1] \in rows THEN read[p[1] - i + 1].g
                           ELSE cj.jac[p]],
                        "none")
  IN loop[inputSize]

\* The reverse branch of computeJacobian: one sweep per w outputs.
computeJacobianReverse(gs0, start, end, input, output) ==
  LET w == Len(gs0)
      inputSize == Len(input)
      outputSize == Len(output)
      sweep[k \in 0..Sweeps(outputSize, w)] ==
        IF k = 0 THEN CJ(gs0, NoJacobian(inputSize, outputSize), "none")
        ELSE LET cj == sweep[k - 1]
                 i == (k - 1) * w
                 seeded == setGradientOnIdentifier(cj.gs, i, output, 1)
                 swept == [d \in 1..w |-> ReverseSweep(seeded.gs[d], end, start)]
                 gs == [d \in 1..w |-> swept[d].adj]
                 read == ReadInputs(gs, cj.jac, i, input)
                 unseeded == setGradientOnIdentifier(read.gs, i, output, 0)
             IN IF cj.err # "none" THEN cj
                ELSE IF seeded.bad THEN CJ(seeded.gs, cj.jac, "OutOfBounds")
                ELSE IF SweepErr(swept) # "none" THEN CJ(gs, cj.jac, SweepErr(swept))
                ELSE IF read.err # "none" THEN read
                ELSE IF unseeded.bad THEN CJ(unseeded.gs, read.jac, "OutOfBounds")
                ELSE CJ(IF ~ReversalZeroesAdjoints
                        THEN clearAdjointsRange(unseeded.gs, end, start)
                        ELSE unseeded.gs,
                        read.jac, "none")
  IN sweep[Sweeps(outputSize, w)]

\* Slots of the w directions that are not zero.
NonZeroSlots(gs) ==
  Cardinality({p \in (1..Len(gs)) \X (1..Len(gs[1])) : gs[p[1]][p[2]] # 0})

\* The identifiers the variables of a list hold.
Identifiers(list) == [k \in DOMAIN list |-> ident[list[k]]]

\* The directions of the tape's vector at vector width w.
Directions(w) == [d \in 1..w |-> IF d = 1 THEN adjoints ELSE Zeros(Len(adjoints))]

\* computeJacobian(tape, start, end, input, inputSize, output, outputSize,
\* jac) at vector width w; the matrix is the caller's.  last holds the branch
\* taken, the slots that are not zero on return, and the two sizes.
computeJacobian(w, start, end, inputs, outputs) ==
  /\ err = "none"
  /\ LET input == Identifiers(inputs)
         output == Identifiers(outputs)
         evalType == getEvaluationChoice(Len(input), Len(output))
         cj == IF Forward = evalType
               THEN computeJacobianForward(Directions(w), start, end, input, output)
               ELSE computeJacobianReverse(Directions(w), start, end, input, output)
     IN /\ adjoints' = cj.gs[1]
        /\ err' = cj.err
        /\ last' = [op |-> IF Forward = evalType THEN "computeJacobianForward"
                           ELSE "computeJacobianReverse",
                    v |-> NonZeroSlots(cj.gs), id |-> Len(input), n |-> Len(output)]
  /\ UNCHANGED <<policy, active, ident, value, refJac, count, freeList, tapeVars,
                 savedPos>>

\* The forward Hessian assembly, computeHessianForward and
\* computeHessianPrimalValueTapeForward: the loops over the inputs and the
\* writes to hes.  hes is a function of <<i, j, k>> (0-based); the value a
\* sweep yields for output i with the second-order seed on input a and the
\* first-order seed on input c is kept as <<i, a, c>>.
Unwritten == <<>>
SweepValue(i, a, c) == <<i, a, c>>

NoHessian(inputSize, outputSize) ==
  [p \in (0..outputSize - 1) \X (0..inputSize - 1) \X (0..inputSize - 1) |-> Unwritten]

\* The writes after one sweep without the mirrored entry.
HessianWritesOneSided(hes, inputSize, j, k, gradDim1st, gradDim2nd) ==
  LET step[t \in 0..gradDim1st * gradDim2nd] ==
        IF t = 0 THEN hes
        ELSE LET h == step[t - 1]
                 vecPos1st == (t - 1) \div gradDim2nd
                 vecPos2nd == (t - 1) % gradDim2nd
                 a == j + vecPos2nd
                 c == k + vecPos1st
             IN IF c < inputSize /\ a < inputSize
                THEN [p \in DOMAIN h |->
                        IF p[2] = a /\ p[3] = c THEN SweepValue(p[1], a, c) ELSE h[p]]
                ELSE h
  IN step[gradDim1st * gradDim2nd]

\* The writes after one sweep with seeds from j and k on: for every output
\* and every pair of seeded directions, hes(i, j + vecPos2nd, k + vecPos1st)
\* and then the mirrored entry.
HessianWrites(hes, inputSize, j, k, gradDim1st, gradDim2nd) ==
  LET step[t \in 0..gradDim1st * gradDim2nd] ==
        IF t = 0 THEN hes
        ELSE LET h == step[t - 1]
                 vecPos1st == (t - 1) \div gradDim2nd
                 vecPos2nd == (t - 1) % gradDim2nd
                 a == j + vecPos2nd
                 c == k + vecPos1st
             IN IF c < inputSize /\ a < inputSize
                THEN [p \in DOMAIN h |->
                        IF (p[2] = a /\ p[3] = c) \/ (p[2] = c /\ p[3] = a)
                        THEN SweepValue(p[1], a, c)
                        ELSE h[p]]
                ELSE h
  IN step[gradDim1st * gradDim2nd]

\* The loops of the assembly: j over the inputs in steps of gradDim2nd, k
\* from j on in steps of gradDim1st, one sweep for each k.  sweeps lists the
\* <<j, k>> of the sweeps in order.
HessianForward(inputSize, outputSize, gradDim1st, gradDim2nd) ==
  LET outer[jb \in 0..Sweeps(inputSize, gradDim2nd)] ==
        IF jb = 0
        THEN [hes |-> NoHessian(inputSize, outputSize), sweeps |-> <<>>]
        ELSE LET j == (jb - 1) * gradDim2nd
                 inner[kb \in 0..Sweeps(inputSize - j, gradDim1st)] ==
                   IF kb = 0 THEN outer[jb - 1]
                   ELSE LET k == j + (kb - 1) * gradDim1st
                        IN [hes |-> HessianWrites(inner[kb - 1].hes, inputSize, j, k,
                                                  gradDim1st, gradDim2nd),
                            sweeps |-> Append(inner[kb - 1].sweeps, <<j, k>>)]
             IN inner[Sweeps(inputSize - j, gradDim1st)]
  IN outer[Sweeps(inputSize, gradDim2nd)]

\* computeHessianForward for inputSize inputs and outputSize outputs at the
\* given widths.  The function, its vectors and hes are the caller's, and
\* every recording made inside is reset before the return; last holds the
\* sizes and widths, hes and the sweeps.
computeHessianForward(inputSize, outputSize, gradDim1st, gradDim2nd) ==
  /\ err = "none"
  /\ LET done == HessianForward(inputSize, outputSize, gradDim1st, gradDim2nd)
     IN last' = [op |-> "computeHessianForward", v |-> done.hes, id |-> done.sweeps,
                 n |-> <<inputSize, outputSize, gradDim1st, gradDim2nd>>]
  /\ UNCHANGED <<policy, active, ident, value, refJac, count, freeList, tapeVars,
                 adjoints, savedPos, err>>

\* size_t arithmetic of the selection, at a width the checker's integers hold.
SizeModulus == 65536

\* binomial(n, k) of aux/binomial.hpp: the binomial coefficient.
RECURSIVE binomial(_, _)
binomial(n, k) ==
  IF k = 0 THEN 1
  ELSE IF n < k THEN 0
  ELSE binomial(n - 1, k - 1) + binomial(n - 1, k)

\* SelectRunTime::select that takes the value branch up to and including the
\* number of derivatives of the primal branch.
RECURSIVE selectInclusive(_, _, _)
selectInclusive(selectionDepth, order, l) ==
  IF selectionDepth = 0 THEN [path |-> <<>>, order |-> order, wrapped |-> FALSE]
  ELSE LET maxDerivativesPrimalBranch == binomial(selectionDepth - 1, order)
       IN IF l <= maxDerivativesPrimalBranch
          THEN LET inner == selectInclusive(selectionDepth - 1, order, l)
               IN [inner EXCEPT !.path = <<"value">> \o @]
          ELSE LET inner == selectInclusive(selectionDepth - 1, (order - 1) % SizeModulus,
                                            l - maxDerivativesPrimalBranch)
               IN [inner EXCEPT !.path = <<"gradient">> \o @,
                                !.wrapped = @ \/ order = 0]

\* SelectRunTime<Type, constant, selectionDepth>::select(v, order, l): the
\* component of v it returns, as the steps v.value() / v.gradient() from the
\* outermost type inwards, the order left at the terminator, and whether
\* order - 1 was taken at order 0.
RECURSIVE select(_, _, _)
select(selectionDepth, order, l) ==
  IF selectionDepth = 0 THEN [path |-> <<>>, order |-> order, wrapped |-> FALSE]
  ELSE LET maxDerivativesPrimalBranch == binomial(selectionDepth - 1, order)
       IN IF l < maxDerivativesPrimalBranch
          THEN LET inner == select(selectionDepth - 1, order, l)
               IN [inner EXCEPT !.path = <<"value">> \o @]
          ELSE LET inner == select(selectionDepth - 1, (order - 1) % SizeModulus,
                                   l - maxDerivativesPrimalBranch)
               IN [inner EXCEPT !.path = <<"gradient">> \o @,
                                !.wrapped = @ \/ order = 0]

\* checkRuntimeSelection: neither CODI_EXCEPTION is raised.
checkRuntimeSelection(selectionDepth, order, l) ==
  /\ ~(order > selectionDepth)
  /\ ~(l >= binomial(selectionDepth, order))

\* DerivativeAccess::derivative(v, order, l) on a type of the given nesting
\* depth; last holds the call and the component it returned.
derivative(selectionDepth, order, l) ==
  /\ last' = IF checkRuntimeSelection(selectionDepth, order, l)
             THEN [op |-> "derivative", v |-> 0, id |-> 0, n |-> 0,
                   selectionDepth |-> selectionDepth, order |-> order, l |-> l,
                   component |-> select(selectionDepth, order, l)]
             ELSE [op |-> "derivative", v |-> 0, id |-> 0, n |-> 0,
                   selectionDepth |-> selectionDepth, order |-> order, l |-> l,
                   raised |-> "CODI_EXCEPTION"]
  /\ UNCHANGED <<policy, active, ident, value, refJac, count, freeList, tapeVars,
                 adjoints, savedPos, err>>

\* ------------------------------------------------------------ the machine
\* Leaves and right-hand sides the caller stores.
MaxLeaves == 2

\* Leaves on variables with partial j.
VarLeaves(J) == {Leaf(FALSE, v, j, TRUE) : v \in Vars, j \in J}
\* Leaves whose partial the checks filter: exactly zero, or not finite.
FilteredLeaves == {Leaf(FALSE, RefVar, 0, TRUE), Leaf(FALSE, RefVar, 1, FALSE)}
\* Leaves that are the ReferenceActiveType.
RefLeaves ==
  {Leaf(TRUE, RefVar, j, TRUE) : j \in {-1, 1}} \cup {Leaf(TRUE, RefVar, 1, FALSE)}

ExprsOver(L) == UNION {[1..k -> L] : k \in 0..MaxLeaves}

Leaves == VarLeaves({1, 2}) \cup FilteredLeaves \cup RefLeaves
Exprs == ExprsOver(Leaves)

Positions == {getPosition, getZeroPosition, savedPos}

InitTape ==
  /\ policy \in {"Linear", "Reuse"}
  /\ active = FALSE
  /\ ident = [v \in Vars |-> UnusedIndex]
  /\ value = [v \in Vars |-> 0]
  /\ refJac = 0
  /\ count = 0
  /\ freeList = <<>>
  /\ stmtData = <<>>
  /\ stmtUsed = 0
  /\ stmtCap = ChunkSize
  /\ jacData = <<>>
  /\ jacUsed = 0
  /\ jacCap = ChunkSize
  /\ adjoints = Zeros(1)
  /\ savedPos = [jac |-> 0, stmt |-> 0, idx |-> 0]
  /\ err = "none"
  /\ last = [op |-> "init", v |-> 0, id |-> 0, n |-> 0]

\* No callback is registered and no listener has been invoked; the driver is
\* before its first run.
InitListeners ==
  /\ listeners = FALSE
  /\ counters = [high |-> 0, low |-> 0, store |-> 0, evaluate |-> 0]
  /\ run = [r |-> 1, phase |-> "init"]

\* A build with both notification gates enabled and arguments pushed as
\* they come.
Init ==
  InitTape /\ InitListeners /\ config = [high |-> TRUE, low |-> TRUE, merge |-> FALSE]

Next ==
  \/ setActive /\ UNCHANGED eventVars
  \/ setPassive /\ UNCHANGED eventVars
  \/ \E lhs \in Vars, e \in Exprs, val \in Values : StoreExpr(lhs, e, val) /\ UNCHANGED eventVars
  \/ \E lhs \in Vars, rhs \in Vars : StoreCopy(lhs, rhs) /\ UNCHANGED eventVars
  \/ \E lhs \in Vars, val \in Values : StorePassive(lhs, val) /\ UNCHANGED eventVars
  \/ \E v \in Vars : registerInput(v) /\ UNCHANGED eventVars
  \/ \E v \in Vars : destroyIdentifier(v) /\ UNCHANGED eventVars
  \/ \E lhs \in Vars, size \in 0..MaxLeaves : storeManual(lhs, size) /\ UNCHANGED eventVars
  \/ \E v \in Vars : pushJacobiManual(1, v) /\ UNCHANGED eventVars
  \/ capturePosition /\ UNCHANGED eventVars
  \/ resetTo /\ UNCHANGED eventVars
  \/ \E b \in BOOLEAN : reset(b) /\ UNCHANGED eventVars
  \/ \E v \in Vars, g \in {0, 1} : gradient(v, g) /\ UNCHANGED eventVars
  \/ clearAdjoints /\ UNCHANGED eventVars
  \/ deleteAdjointVector /\ UNCHANGED eventVars
  \/ \E s \in Positions, e \in Positions : evaluate(s, e) /\ UNCHANGED eventVars
  \/ \E s \in Positions, e \in Positions : evaluateForward(s, e) /\ UNCHANGED eventVars

Spec == Init /\ [][Next]_vars

\* Recording: every store variant on every kind of leaf, registerInput and
\* reset; the primal value is held at 0.
ExprsRecord ==
  ExprsOver(VarLeaves({1}) \cup RefLeaves) \cup {<<l>> : l \in FilteredLeaves}

NextRecord ==
  \/ setActive /\ UNCHANGED eventVars
  \/ setPassive /\ UNCHANGED eventVars
  \/ \E lhs \in Vars, e \in ExprsRecord : StoreExpr(lhs, e, 0) /\ UNCHANGED eventVars
  \/ \E lhs \in Vars, rhs \in Vars : StoreCopy(lhs, rhs) /\ UNCHANGED eventVars
  \/ \E lhs \in Vars : StorePassive(lhs, 0) /\ UNCHANGED eventVars
  \/ \E v \in Vars : registerInput(v) /\ UNCHANGED eventVars
  \/ \E b \in BOOLEAN : reset(b) /\ UNCHANGED eventVars

SpecRecord == Init /\ [][NextRecord]_vars

\* Primal values: the store variants with right-hand sides of at most one
\* leaf and every primal value.
ExprsPrimal == {<<>>} \cup {<<l>> : l \in VarLeaves({1})}

NextPrimal ==
  \/ setActive /\ UNCHANGED eventVars
  \/ setPassive /\ UNCHANGED eventVars
  \/ \E lhs \in Vars, e \in ExprsPrimal, val \in Values : StoreExpr(lhs, e, val) /\ UNCHANGED eventVars
  \/ \E lhs \in Vars, rhs \in Vars : StoreCopy(lhs, rhs) /\ UNCHANGED eventVars
  \/ \E lhs \in Vars, val \in Values : StorePassive(lhs, val) /\ UNCHANGED eventVars
  \/ \E v \in Vars : registerInput(v) /\ UNCHANGED eventVars
  \/ \E b \in BOOLEAN : reset(b) /\ UNCHANGED eventVars

SpecPrimal == Init /\ [][NextPrimal]_vars

\* Positions: recording with captured positions, resetTo and reset.
ExprsPosition == ExprsOver(VarLeaves({1}))

NextPosition ==
  \/ setActive /\ UNCHANGED eventVars
  \/ \E lhs \in Vars, e \in ExprsPosition : StoreExpr(lhs, e, 0) /\ UNCHANGED eventVars
  \/ \E lhs \in Vars : StorePassive(lhs, 0) /\ UNCHANGED eventVars
  \/ \E v \in Vars : registerInput(v) /\ UNCHANGED eventVars
  \/ capturePosition /\ UNCHANGED eventVars
  \/ resetTo /\ UNCHANGED eventVars
  \/ \E b \in BOOLEAN : reset(b) /\ UNCHANGED eventVars

SpecPosition == Init /\ [][NextPosition]_vars

\* Replay: recording on variable leaves, seeding, and replay of the whole
\* recording in both directions on the tape's own vector.
ExprsReplay == ExprsOver(VarLeaves({1, 2}))

NextReplay ==
  \/ setActive /\ UNCHANGED eventVars
  \/ \E lhs \in Vars, e \in ExprsReplay : StoreExpr(lhs, e, 0) /\ UNCHANGED eventVars
  \/ \E v \in Vars : registerInput(v) /\ UNCHANGED eventVars
  \/ \E b \in BOOLEAN : reset(b) /\ UNCHANGED eventVars
  \/ \E v \in Vars, g \in {0, 1} : gradient(v, g) /\ UNCHANGED eventVars
  \/ clearAdjoints /\ UNCHANGED eventVars
  \/ deleteAdjointVector /\ UNCHANGED eventVars
  \/ evaluate(getPosition, getZeroPosition) /\ UNCHANGED eventVars
  \/ evaluateForward(getZeroPosition, getPosition) /\ UNCHANGED eventVars

SpecReplay == Init /\ [][NextReplay]_vars

\* Manual recording: storeManual and pushJacobiManual on registered inputs.
NextManual ==
  \/ \E v \in Vars : registerInput(v) /\ UNCHANGED eventVars
  \/ \E lhs \in Vars, size \in 0..MaxLeaves : storeManual(lhs, size) /\ UNCHANGED eventVars
  \/ \E v \in Vars : pushJacobiManual(1, v) /\ UNCHANGED eventVars
  \/ \E b \in BOOLEAN : reset(b) /\ UNCHANGED eventVars

SpecManual == Init /\ [][NextManual]_vars

\* Identifiers: every call that assigns, copies or frees an identifier, on
\* right-hand sides of at most one leaf, with positions, resetTo and reset.
ExprsIndex == {<<>>} \cup {<<l>> : l \in VarLeaves({1})}

NextIndex ==
  \/ setActive /\ UNCHANGED eventVars
  \/ \E lhs \in Vars, e \in ExprsIndex : StoreExpr(lhs, e, 0) /\ UNCHANGED eventVars
  \/ \E lhs \in Vars, rhs \in Vars : StoreCopy(lhs, rhs) /\ UNCHANGED eventVars
  \/ \E lhs \in Vars : StorePassive(lhs, 0) /\ UNCHANGED eventVars
  \/ \E lhs \in Vars : storeManual(lhs, 0) /\ UNCHANGED eventVars
  \/ \E v \in Vars : registerInput(v) /\ UNCHANGED eventVars
  \/ \E v \in Vars : destroyIdentifier(v) /\ UNCHANGED eventVars
  \/ capturePosition /\ UNCHANGED eventVars
  \/ resetTo /\ UNCHANGED eventVars
  \/ \E b \in BOOLEAN : reset(b) /\ UNCHANGED eventVars

SpecIndex == Init /\ [][NextIndex]_vars

\* One recording segment: recording, destruction of variables, captured
\* positions and resetTo to a position other than the zero position; no
\* full reset.
NextSegment ==
  \/ setActive /\ UNCHANGED eventVars
  \/ \E lhs \in Vars, e \in ExprsIndex : StoreExpr(lhs, e, 0) /\ UNCHANGED eventVars
  \/ \E lhs \in Vars : StorePassive(lhs, 0) /\ UNCHANGED eventVars
  \/ \E v \in Vars : registerInput(v) /\ UNCHANGED eventVars
  \/ \E v \in Vars : destroyIdentifier(v) /\ UNCHANGED eventVars
  \/ capturePosition /\ UNCHANGED eventVars
  \/ savedPos # getZeroPosition /\ resetTo /\ UNCHANGED eventVars

SpecSegment == Init /\ [][NextSegment]_vars

\* The Jacobian assembly: an input, unary statements that compute an output
\* from it, and computeJacobian on short and long identifier lists at vector
\* widths 1 and 2.  No gradient is seeded by the caller, so every slot is
\* zero when computeJacobian is called.
MaxWidth == 2
LongList == 5
ListsJacobian ==
  {<<1>>, <<2>>, <<1, 2>>, [k \in 1..LongList |-> (k % NVars) + 1]}
\* The ranges asked for: the whole recording, the part after the captured
\* position, and the whole recording with start and end exchanged.
RangesJacobian ==
  {<<getZeroPosition, getPosition>>, <<savedPos, getPosition>>,
   <<getPosition, getZeroPosition>>}

NextJacobian ==
  \/ setActive /\ UNCHANGED eventVars
  \/ \E e \in ExprsIndex : StoreExpr(2, e, 1) /\ UNCHANGED eventVars
  \/ registerInput(1) /\ UNCHANGED eventVars
  \/ capturePosition /\ UNCHANGED eventVars
  \/ \E w \in 1..MaxWidth, r \in RangesJacobian,
        inputs \in ListsJacobian, outputs \in ListsJacobian :
          computeJacobian(w, r[1], r[2], inputs, outputs) /\ UNCHANGED eventVars

SpecJacobian == Init /\ [][NextJacobian]_vars

\* Replay that keeps the state: an input, unary statements on it, seeds, and
\* the two replays between every two of the current, the zero and the
\* captured position.
NextKeepState ==
  \/ setActive /\ UNCHANGED eventVars
  \/ \E e \in ExprsIndex : StoreExpr(2, e, 1) /\ UNCHANGED eventVars
  \/ registerInput(1) /\ UNCHANGED eventVars
  \/ capturePosition /\ UNCHANGED eventVars
  \/ \E v \in Vars : gradient(v, 1) /\ UNCHANGED eventVars
  \/ \E s \in Positions, e \in Positions : evaluateKeepState(s, e) /\ UNCHANGED eventVars
  \/ \E s \in Positions, e \in Positions : evaluateForwardKeepState(s, e) /\ UNCHANGED eventVars

SpecKeepState == Init /\ [][NextKeepState]_vars

\* Data management: an input and unary statements on it, seeds, and the
\* operations that clear, rewind and resize.
MaxSize == 2
NextManage ==
  \/ setActive /\ UNCHANGED eventVars
  \/ \E e \in ExprsIndex : StoreExpr(2, e, 1) /\ UNCHANGED eventVars
  \/ registerInput(1) /\ UNCHANGED eventVars
  \/ gradient(2, 1) /\ UNCHANGED eventVars
  \/ clearAdjoints /\ UNCHANGED eventVars
  \/ \E b \in BOOLEAN : reset(b) /\ UNCHANGED eventVars
  \/ resetHard /\ UNCHANGED eventVars
  \/ \E parameter \in TapeParameters, val \in 0..MaxSize : setParameter(parameter, val) /\ UNCHANGED eventVars

SpecManage == Init /\ [][NextManage]_vars

\* The forward Hessian assembly on up to MaxInputs inputs and MaxOutputs
\* outputs, at first- and second-order widths up to MaxDim.
MaxInputs == 4
MaxOutputs == 2
MaxDim == 3
NextHessian ==
  \E inputSize \in 0..MaxInputs, outputSize \in 1..MaxOutputs,
     gradDim1st \in 1..MaxDim, gradDim2nd \in 1..MaxDim :
       computeHessianForward(inputSize, outputSize, gradDim1st, gradDim2nd) /\ UNCHANGED eventVars

SpecHessian == Init /\ [][NextHessian]_vars

\* Primal access on the Jacobian tape: an input, unary statements on it, a
\* seed and a full reverse replay, with primal and evaluatePrimal called in
\* between.
NextUnsupported ==
  \/ setActive /\ UNCHANGED eventVars
  \/ setPassive /\ UNCHANGED eventVars
  \/ registerInput(1) /\ UNCHANGED eventVars
  \/ \E e \in ExprsIndex : StoreExpr(2, e, 1) /\ UNCHANGED eventVars
  \/ gradient(2, 1) /\ UNCHANGED eventVars
  \/ evaluate(getPosition, getZeroPosition) /\ UNCHANGED eventVars
  \/ \E identifier \in 0..(MaxIndex + 1) : primal(identifier) /\ UNCHANGED eventVars
  \/ \E s \in Positions, e \in Positions : evaluatePrimal(s, e) /\ UNCHANGED eventVars

SpecUnsupported == Init /\ [][NextUnsupported]_vars

\* The merge build: an input, statements whose right-hand side reaches a
\* variable or the reference once or twice with partials 1 and -1, seeds and
\* the full replay in both directions, in one recording without a reset.
ExprsMerge ==
  ExprsOver(VarLeaves({1}) \cup {Leaf(FALSE, RefVar, -1, TRUE), Leaf(TRUE, RefVar, 1, TRUE)})

InitMerge ==
  InitTape /\ InitListeners /\ config = [high |-> TRUE, low |-> TRUE, merge |-> TRUE]

NextMerge ==
  \/ setActive /\ UNCHANGED eventVars
  \/ registerInput(1) /\ UNCHANGED eventVars
  \/ \E lhs \in Vars, e \in ExprsMerge : StoreExpr(lhs, e, 0) /\ UNCHANGED eventVars
  \/ gradient(1, 1) /\ UNCHANGED eventVars
  \/ evaluate(getPosition, getZeroPosition) /\ UNCHANGED eventVars
  \/ evaluateForward(getZeroPosition, getPosition) /\ UNCHANGED eventVars

SpecMerge == InitMerge /\ [][NextMerge]_vars

\* The two revisions side by side: store, registerInput and the copy store of
\* the current revision, and the copy store of the earlier revision in each
\* build of its two flags, while recording and while passive.
NextRevisions ==
  \/ setActive /\ UNCHANGED eventVars
  \/ setPassive /\ UNCHANGED eventVars
  \/ \E v \in Vars : registerInput(v) /\ UNCHANGED eventVars
  \/ \E lhs \in Vars, e \in ExprsIndex : StoreExpr(lhs, e, 1) /\ UNCHANGED eventVars
  \/ \E lhs \in Vars, rhs \in Vars : StoreCopy(lhs, rhs) /\ UNCHANGED eventVars
  \/ \E needs \in BOOLEAN, opt \in BOOLEAN, lhs \in Vars, rhs \in Vars :
       StoreAssign(needs, opt, lhs, rhs) /\ UNCHANGED eventVars

SpecRevisions == Init /\ [][NextRevisions]_vars

\* Run-time selection on nested types: every depth up to MaxDepth, every
\* order up to one past the depth and every derivative number up to one past
\* the largest number of derivatives of an order.
MaxDepth == 5
NextSelect ==
  \E selectionDepth \in 0..MaxDepth, order \in 0..(MaxDepth + 1),
     l \in 0..binomial(MaxDepth, MaxDepth \div 2) :
       derivative(selectionDepth, order, l) /\ UNCHANGED eventVars

SpecSelect == Init /\ [][NextSelect]_vars

\* ------------------------------------------------------------------ events
\* EventSystem::internalNotifyListeners that does not look at the gate.
internalNotifyListenersUngated(enabled, n) == IF listeners THEN n ELSE 0

\* EventSystem::internalNotifyListeners for n occurrences of an event: the
\* listener invocations they cause.  The registered callbacks are one per
\* event, registered and removed together.
internalNotifyListeners(enabled, n) == IF enabled /\ listeners THEN n ELSE 0

\* The notifications of one tape call: high workflow events behind
\* Config::HighLevelEvents; low identifier assignments, stored statement
\* stores and evaluated statement evaluations behind Config::LowLevelEvents.
Notify(high, low, stored, evaluated) ==
  /\ counters' =
       [high |-> counters.high + internalNotifyListeners(config.high, high),
        low |-> counters.low + internalNotifyListeners(config.low, low),
        store |-> counters.store + internalNotifyListeners(config.low, stored),
        evaluate |-> counters.evaluate + internalNotifyListeners(config.low, evaluated)]
  /\ UNCHANGED <<listeners, config>>

\* The driver moves from one place of its run to the next.
At(from, to) == run.phase = from /\ run' = [run EXCEPT !.phase = to]

\* driverReverse.cpp runs its loop maxRuns times.
MaxRuns == 3

\* The driver of the event test on one input (variable 1) and one output
\* (variable 2): callbacks are registered, then each run resets the tape,
\* records, replays the section recorded after a captured position over
\* exactly its range and truncates it, records the output, seeds it and
\* replays the whole tape; the last run removes the callbacks first.  A store
\* that records a statement notifies one identifier assignment and one
\* statement store; a replay notifies one statement evaluation for every
\* statement it replays.
InitEvents ==
  InitTape /\ InitListeners /\ config \in [high : BOOLEAN, low : BOOLEAN, merge : {FALSE}]

NextEvents ==
  \/ At("init", "start") /\ listeners' = TRUE
       /\ UNCHANGED <<coreVars, config, counters>>
  \/ run.phase = "start" /\ run.r = MaxRuns /\ listeners /\ listeners' = FALSE
       /\ UNCHANGED <<coreVars, config, counters, run>>
  \/ At("start", "reset") /\ (run.r = MaxRuns => ~listeners)
       /\ reset(TRUE) /\ Notify(1, 0, 0, 0)
  \/ At("reset", "inputs") /\ setActive /\ Notify(1, 0, 0, 0)
  \/ At("inputs", "body") /\ registerInput(1) /\ Notify(1, 1, 0, 0)
  \/ At("body", "body") /\ (\E e \in ExprsIndex : StoreExpr(2, e, 1))
       /\ Notify(0, stmtUsed' - stmtUsed, stmtUsed' - stmtUsed, 0)
  \/ At("body", "section") /\ capturePosition /\ Notify(0, 0, 0, 0)
  \/ At("body", "section") /\ savedPos = getPosition
       /\ UNCHANGED coreVars /\ Notify(0, 0, 0, 0)
  \/ At("section", "section") /\ (\E e \in ExprsIndex : StoreExpr(2, e, 1))
       /\ Notify(0, stmtUsed' - stmtUsed, stmtUsed' - stmtUsed, 0)
  \/ At("section", "passive") /\ setPassive /\ Notify(1, 0, 0, 0)
  \/ At("passive", "replayed") /\ evaluate(getPosition, savedPos)
       /\ Notify(1, 0, 0, last'.id + last'.n)
  \/ At("replayed", "truncated") /\ resetTo /\ Notify(1, 0, 0, 0)
  \/ At("replayed", "truncated") /\ savedPos = getPosition
       /\ UNCHANGED coreVars /\ Notify(1, 0, 0, 0)
  \/ At("truncated", "outputs") /\ setActive /\ Notify(1, 0, 0, 0)
  \/ At("outputs", "outputs") /\ (\E e \in ExprsIndex : StoreExpr(2, e, 1))
       /\ Notify(0, stmtUsed' - stmtUsed, stmtUsed' - stmtUsed, 0)
  \/ At("outputs", "seed") /\ setPassive /\ Notify(1, 0, 0, 0)
  \/ At("seed", "seeded") /\ gradient(2, 1) /\ Notify(0, 0, 0, 0)
  \/ At("seeded", "done") /\ evaluate(getPosition, getZeroPosition)
       /\ Notify(1, 0, 0, last'.id + last'.n)
  \/ run.phase = "done" /\ run.r < MaxRuns
       /\ run' = [r |-> run.r + 1, phase |-> "start"]
       /\ UNCHANGED <<coreVars, listeners, config, counters>>

SpecEvents == InitEvents /\ [][NextEvents]_vars

\* ------------------------------------------------------------------ claims
\* The recorded function's derivative, from the recording alone: the tangent
\* the chain rule gives each statement's output (the sum over its argument
\* entries of partial times the argument's tangent), statement after
\* statement, d being the tangents so far and jpos the first entry of the
\* statement s.
RECURSIVE ArgumentSum(_, _, _)
ArgumentSum(d, jpos, n) ==
  IF n = 0 THEN 0
  ELSE jacData[jpos + 1].jac * d[jacData[jpos + 1].id] + ArgumentSum(d, jpos + 1, n - 1)

RECURSIVE ChainRule(_, _, _)
ChainRule(d, s, jpos) ==
  IF s >= stmtUsed THEN d
  ELSE LET n == stmtData[s + 1].n
           lhs == LhsOf(s, s + 1)
       IN IF IsLinear /\ n = StatementInputTag
          THEN ChainRule(d, s + 1, jpos)
          ELSE ChainRule([d EXCEPT ![lhs] = ArgumentSum(d, jpos, n)], s + 1, jpos + n)

Derivative(input, output) ==
  ChainRule([i \in 0..MaxIndex |-> IF i = input THEN 1 ELSE 0], 0, 0)[output]

\* The identifiers the statements of the recording put out.
Outputs == {LhsOf(s, s + 1) : s \in {t \in 0..(stmtUsed - 1) : stmtData[t + 1].n # StatementInputTag}}

\* v holds the identifier of a registered input of the recording.
IsInput(v) ==
  /\ ident[v] # 0
  /\ ident[v] <= count
  /\ IF IsLinear
     THEN ident[v] <= stmtUsed /\ stmtData[ident[v]].n = StatementInputTag
     ELSE ident[v] \notin Outputs

\* v holds the identifier a statement of the recording put out.
IsOutput(v) == ident[v] # 0 /\ ident[v] \in Outputs

\* adj is 1 on identifier id and zero elsewhere.
UnitSeed(adj, id) ==
  /\ InVector(adj, id)
  /\ \A i \in 1..Len(adj) : adj[i] = IF i = id + 1 THEN 1 ELSE 0

RefPaths(e) == {k \in 1..Len(e) : e[k].ref}

RECURSIVE SumOver(_, _)
SumOver(e, K) ==
  IF K = {} THEN 0
  ELSE LET k == CHOOSE x \in K : TRUE
       IN (IF e[k].finite THEN e[k].jac ELSE 0) + SumOver(e, K \ {k})

VarPushes(e) ==
  Cardinality({k \in 1..Len(e) :
                 ~e[k].ref /\ ident[e[k].v] # 0 /\ e[k].finite /\ e[k].jac # 0})

\* A store of e records here: active tape, room in both streams.
Recordable(e) ==
  /\ err = "none"
  /\ active
  /\ stmtUsed + 1 <= stmtCap /\ jacUsed + Len(e) <= jacCap
  /\ JacWithin(e)

RECURSIVE ArgCount(_)
ArgCount(k) ==
  IF k = 0 THEN 0
  ELSE (IF stmtData[k].n = StatementInputTag THEN 0 ELSE stmtData[k].n) + ArgCount(k - 1)

\* The argument stream is the concatenation of the entries of the committed
\* statements: every statement is written, every entry is written, and the
\* entries are as many as the statements declare.
StreamsAligned ==
  /\ Len(stmtData) = stmtUsed
  /\ Len(jacData) = jacUsed
  /\ ArgCount(stmtUsed) = jacUsed

\* pos is the end of a statement of the present recording.
AtStatementEnd(pos) ==
  /\ pos.stmt <= stmtUsed
  /\ pos.jac <= jacUsed
  /\ Len(stmtData) >= pos.stmt
  /\ ArgCount(pos.stmt) = pos.jac

\* C3 as claimed: after any sequence of store, registerInput, reset and
\* resetTo to captured positions, the argument stream is the concatenation
\* of the committed statements' entries.
C3_StreamsAlignedAlways == err = "none" => StreamsAligned

\* C3 amended: the streams start aligned, and every store, registerInput,
\* reset and every resetTo to a captured position that is still the end of
\* a statement of the present recording keeps them aligned.
C3_StreamsAlignedWhileValid ==
  /\ StreamsAligned
  /\ [][(StreamsAligned /\ (last'.op = "resetTo" => AtStatementEnd(savedPos)))
          => StreamsAligned']_vars

\* resetTo has just cut the recording back to the end of its first
\* statement.
C3_Witness ==
  /\ last.op = "resetTo" /\ err = "none"
  /\ stmtUsed >= 1 /\ jacUsed >= 1
  /\ StreamsAligned

\* The step is a store that went through the expression overload (an
\* expression, or a copy the Reuse policy turns into a statement) or the
\* passive overload.
IsStoreStep ==
  \/ last'.op \in {"store", "passive"}
  \/ last'.op = "copy" /\ CopyNeedsStatement

\* C4: on an active tape a store that pushes no argument entry leaves the
\* output's identifier 0 under both policies, also when it was live, and
\* appends no statement entry and no argument entry.
C4_NoArgumentStoreFrees ==
  [][(IsStoreStep /\ active /\ err' = "none" /\ jacUsed' = jacUsed)
       => /\ ident'[last'.v] = 0
          /\ UNCHANGED <<stmtData, stmtUsed, jacData, jacUsed>>]_vars

\* An expression store on a live output has just pushed no argument on an
\* active tape that holds a statement.
C4_Witness ==
  /\ last.op = "store" /\ last.n = 0 /\ last.id # 0
  /\ active /\ err = "none"
  /\ stmtUsed >= 1
  /\ ident[last.v] = 0

\* What an inactive store of val to lhs has to leave behind.
InactiveStorePost(lhs, val) ==
  /\ ident'[lhs] = 0
  /\ (~IsLinear /\ ident[lhs] # 0) => \E i \in 1..Len(freeList') : freeList'[i] = ident[lhs]
  /\ value'[lhs] = val
  /\ UNCHANGED tapeVars
  /\ getPosition' = getPosition

\* C5: while the tape is inactive every store variant (expression, copy,
\* passive) frees the output's identifier, writes the right-hand side's
\* primal value into the output and leaves both streams and their positions
\* unchanged.
C5_InactiveStoreOnlyPrimal ==
  [][\A lhs \in Vars :
       (~active /\ last'.v = lhs) =>
         /\ \A e \in ExprsPrimal, val \in Values :
              StoreExpr(lhs, e, val) => InactiveStorePost(lhs, val)
         /\ \A rhs \in Vars :
              StoreCopy(lhs, rhs) => InactiveStorePost(lhs, value[rhs])
         /\ \A val \in Values :
              StorePassive(lhs, val) => InactiveStorePost(lhs, val)]_vars

\* A passive store on an inactive tape that holds a statement with an
\* argument has just taken a live identifier from its output.
C5_Witness ==
  /\ last.op = "passive" /\ last.id # 0
  /\ ~active /\ err = "none"
  /\ stmtUsed >= 1 /\ jacUsed >= 1
  /\ ident[last.v] = 0
  /\ value[last.v] = 2

\* The replay evaluate(getPosition, getZeroPosition) makes from here.
ReverseRun ==
  internalEvaluateReverse(
    RS(checkAdjointSize(adjoints, GetLargestAssignedIndex), jacUsed, FALSE),
    stmtUsed, 0, getPosition.idx)

\* The replay evaluateForward(getZeroPosition, getPosition) makes from here.
ForwardRun ==
  internalEvaluateForward(
    RS(checkAdjointSize(adjoints, GetLargestAssignedIndex), 0, FALSE),
    0, stmtUsed, 0)

\* C6: in a reverse replay a statement whose output adjoint is exactly zero
\* leaves every adjoint unchanged and still consumes exactly its declared
\* number of argument entries, so every statement is replayed against its
\* own entries.
C6_ZeroAdjointSkipConsumesArguments ==
  [][last'.op = "evaluate"
       => LET rs == ReverseRun
          IN /\ adjoints' = rs.adj
             /\ \A i \in DOMAIN rs.log :
                  LET st == rs.log[i]
                  IN /\ st.jpos = ArgCount(st.stmt + 1)
                     /\ st.lhsAdjoint = 0
                          => st.adjAfter = st.adj /\ st.jposAfter = st.jpos - st.n]_vars

\* A reverse replay has just skipped a statement with arguments on a zero
\* output adjoint and replayed an earlier one on a non-zero adjoint.
C6_Witness ==
  /\ last.op = "evaluate" /\ err = "none"
  /\ last.n >= 1 /\ last.id >= 1
  /\ stmtData[stmtUsed].n \in 1..ChunkSize
  /\ \E i \in 2..Len(adjoints) : adjoints[i] # 0

\* The identifiers the argument entries of the recording name.
Arguments == {jacData[k].id : k \in 1..jacUsed}

\* The adjoint of identifier id before a call that may grow the vector.
AdjointOf(id) == IF id < Len(adjoints) THEN adjoints[id + 1] ELSE 0

RECURSIVE TangentAfter(_, _, _, _, _)
TangentAfter(t, adj, lhs, jpos, n) ==
  IF n = 0 THEN t
  ELSE LET e == jacData[jpos + 1]
       IN TangentAfter(t + e.jac * (IF e.id = lhs THEN t ELSE adj[e.id + 1]),
                       adj, lhs, jpos + 1, n - 1)

\* The statements of a forward replay are visited in recording order, each
\* on its own entries.
InRecordingOrder(log) ==
  \A i \in DOMAIN log :
    /\ log[i].jpos = ArgCount(log[i].stmt)
    /\ log[i].jposAfter = log[i].jpos + log[i].n
    /\ i > 1 => log[i].stmt > log[i - 1].stmt

IdentifiersInUse == ({ident[v] : v \in Vars} \cup Outputs \cup Arguments) \ {0}

\* C9: gradient(identifier) with identifier >= the vector's size first
\* resizes the vector to getLargestAssignedIndex() + 1 and the slot then
\* lies inside the vector; evaluate and evaluateForward run on a vector that
\* covers every identifier issued.
C9_AccessedSlotInsideVector ==
  [][/\ (last'.op = "gradient" /\ last'.id >= Len(adjoints))
          => /\ Len(adjoints') = GetLargestAssignedIndex + 1
             /\ last'.id < Len(adjoints')
     /\ last'.op \in {"evaluate", "evaluateForward"}
          => \A id \in IdentifiersInUse : id < Len(adjoints')]_vars

\* C10: the vector's size never decreases through store, registerInput,
\* reset, resetTo, gradient, clearAdjoints, evaluate or evaluateForward; only
\* deleteAdjointVector (or setParameter, swap) shrinks it.
C10_VectorNeverShrinksImplicitly ==
  [][last'.op # "deleteAdjointVector" => Len(adjoints') >= Len(adjoints)]_vars

\* pos is not past the present position at any level, as every position is
\* that was captured before the entries recorded since.
NotPast(pos) ==
  /\ pos.jac <= jacUsed
  /\ pos.stmt <= stmtUsed
  /\ IsLinear => pos.idx <= count

\* C11: resetTo(p) for a captured position p that the recording has moved on
\* from restores the used size of the argument stream, of the statement
\* stream and of the index manager nested in it, so that getPosition() is p
\* again; the entries up to p are kept and none recorded after p is left in
\* the streams.
C11_ResetToRestoresPosition ==
  [][(last'.op = "resetTo" /\ NotPast(savedPos))
       => /\ err' = "none"
          /\ getPosition' = savedPos
          /\ jacData' = SubSeq(jacData, 1, savedPos.jac)
          /\ stmtData' = SubSeq(stmtData, 1, savedPos.stmt)]_vars

\* resetTo has just taken the recording back to a captured position after
\* the first statement.
C11_Witness ==
  /\ last.op = "resetTo" /\ err = "none"
  /\ getPosition = savedPos
  /\ savedPos.stmt >= 1
  /\ Len(stmtData) = savedPos.stmt /\ Len(jacData) = savedPos.jac

\* C12: resetTo(pos) with a position past the present one at some level is
\* signalled as a contract violation and increases no stream's used size.
C12_ResetToPastPositionIsViolation ==
  [][(last'.op = "resetTo" /\ (savedPos.jac > jacUsed \/ savedPos.stmt > stmtUsed))
       => /\ err' = "ContractViolation"
          /\ jacUsed' <= jacUsed
          /\ stmtUsed' <= stmtUsed]_vars

\* C13: pushData is accepted only inside the allowance of the latest
\* reserveItems(n) on the stream: a push with no reservation before it, or
\* one more than n pushes after it, is signalled as a contract violation and
\* writes nothing.
C13_PushOnlyInsideReservation ==
  [][(last'.op = "pushJacobiManual" /\ last'.n >= 0 /\ last'.id > last'.n)
       => /\ err' = "ContractViolation"
          /\ jacUsed' = jacUsed
          /\ jacData' = jacData]_vars

\* C14: for the handle reserveItems returned to store, getPushedDataCount is
\* the number of entries pushed since, between 0 and the reserved count; an
\* active store commits a statement declaring exactly that many arguments,
\* and none when it is 0.
C14_PushedCountIsArgumentCount ==
  /\ [](\A e \in ExprsRecord :
          Recordable(e) =>
            LET st == pushJacobians(e)
                pushed == Len(st.data) - Len(jacData)
            IN /\ getPushedDataCount(st.used, jacUsed) = pushed
               /\ pushed \in 0..Len(e))
  /\ [][( /\ last'.op \in {"store", "copy"}
          /\ last'.op = "copy" => CopyNeedsStatement
          /\ active
          /\ err' = "none" )
         => LET pushed == Len(jacData') - Len(jacData)
            IN IF pushed # 0
               THEN /\ stmtUsed' = stmtUsed + 1
                    /\ stmtData'[stmtUsed'].n = pushed
                    /\ last'.n = pushed
               ELSE UNCHANGED <<stmtData, stmtUsed>>]_vars

\* A store whose handle was not the start of the stream has just committed
\* the second statement, with one argument.
C14_Witness ==
  /\ last.op = "store" /\ err = "none"
  /\ stmtUsed = 2 /\ jacUsed = 2
  /\ stmtData[2].n = 1 /\ last.n = 1

\* The calls that hand an identifier to the variable they are made on:
\* store and storeManual through assignIndex, registerInput through
\* assignUnusedIndex.
AssignCalls == {"store", "copy", "storeManual", "registerInput"}

\* C15: under Reuse an identifier handed to a variable whose identifier was
\* the unused sentinel differs from the identifier of every other variable
\* that holds one.
C15_ReuseIssuesNoLiveIdentifier ==
  [][( /\ ~IsLinear
       /\ last'.op \in AssignCalls
       /\ ident[last'.v] = UnusedIndex
       /\ ident'[last'.v] # UnusedIndex )
     => \A w \in Vars \ {last'.v} : ident'[w] # ident'[last'.v]]_vars

\* Under Reuse a variable without identifier has just been handed
\* identifier 1 from the free list while the other variable holds 2.
C15_Witness ==
  /\ ~IsLinear /\ err = "none"
  /\ last.op \in AssignCalls /\ last.id = UnusedIndex
  /\ ident[last.v] = 1
  /\ count = 2
  /\ \E w \in Vars \ {last.v} : ident[w] = 2

\* C16: under Linear an identifier once issued is not issued again before a
\* full reset, whatever store, registerInput, freeIndex, destroyIdentifier
\* and resetTo calls come in between: in a segment without a full reset, the
\* identifier a call issues is one no variable holds from an earlier call.
C16_LinearNeverReissues ==
  [][( /\ IsLinear
       /\ last'.op \in AssignCalls
       /\ count' # count
       /\ ident'[last'.v] # UnusedIndex )
     => \A w \in Vars : ident[w] # ident'[last'.v]]_vars

\* C17: under Reuse getLargestAssignedIndex() never decreases, whatever
\* assigning, freeing and copying calls, resetTo and reset are made, and it
\* is at least every identifier a variable holds or the free list contains.
C17_ReuseLargestIsHighWater ==
  /\ [](~IsLinear =>
          /\ \A v \in Vars : ident[v] <= GetLargestAssignedIndex
          /\ \A i \in 1..Len(freeList) : freeList[i] <= GetLargestAssignedIndex)
  /\ [][~IsLinear => GetLargestAssignedIndex' >= GetLargestAssignedIndex]_vars

\* Under Reuse a reset has just been made with the largest identifier 2
\* freed and identifier 1 held.
C17_Witness ==
  /\ ~IsLinear /\ err = "none"
  /\ last.op = "reset"
  /\ GetLargestAssignedIndex = 2
  /\ freeList = <<2>>
  /\ \E v \in Vars : ident[v] = 1

C19_RegisterInputFreshIdentifier ==
  [][(last'.op = "registerInput" /\ err' = "none")
       => /\ ident'[last'.v] \notin {UnusedIndex, InvalidIndex}
          /\ \A w \in Vars \ {last'.v} : ident'[w] # ident'[last'.v]
          /\ \A i \in 1..Len(freeList') : freeList'[i] # ident'[last'.v]
          /\ UNCHANGED <<jacData, jacUsed>>
          /\ IF IsLinear
             THEN /\ stmtUsed' = stmtUsed + 1
                  /\ stmtData'[stmtUsed'].n = StatementInputTag
                  /\ SubSeq(stmtData', 1, stmtUsed) = stmtData
             ELSE UNCHANGED <<stmtData, stmtUsed>>]_vars

\* C20: on an active tape the copy of an active variable rhs into another
\* variable lhs records, under Reuse, one new statement with the single
\* argument (1, identifier of rhs) and leaves lhs with an identifier of its
\* own, different from that of rhs; under Linear with the copy optimization
\* it records nothing and leaves lhs with the identifier of rhs.
C20_CopyStatementOrAlias ==
  [][\A lhs \in Vars : \A rhs \in Vars \ {lhs} :
       ( /\ active
         /\ ident[rhs] # UnusedIndex
         /\ StoreCopy(lhs, rhs)
         /\ err' = "none" )
       => IF IsLinear /\ CopyOptimization
          THEN /\ UNCHANGED <<stmtData, stmtUsed, jacData, jacUsed>>
               /\ ident'[lhs] = ident[rhs]
          ELSE /\ stmtUsed' = stmtUsed + 1
               /\ stmtData'[stmtUsed'] = [lhs |-> ident'[lhs], n |-> 1]
               /\ jacUsed' = jacUsed + 1
               /\ jacData'[jacUsed'] = [jac |-> 1, id |-> ident[rhs]]
               /\ ident'[lhs] # UnusedIndex
               /\ ident'[lhs] # ident'[rhs]]_vars

\* Under Reuse a copy has just recorded the second statement, whose single
\* argument is the other variable's identifier.
C20_Witness ==
  /\ ~IsLinear /\ active /\ err = "none"
  /\ last.op = "copy" /\ last.n = 1
  /\ stmtUsed = 2 /\ jacUsed = 2
  /\ stmtData[2] = [lhs |-> ident[last.v], n |-> 1]
  /\ \E w \in Vars \ {last.v} :
       /\ ident[w] # UnusedIndex
       /\ jacData[2] = [jac |-> 1, id |-> ident[w]]
       /\ ident[w] # ident[last.v]

\* A step of computeJacobian, by the branch it records.
JacobianBranches == {"computeJacobianForward", "computeJacobianReverse"}
AllZero(adj) == \A i \in 1..Len(adj) : adj[i] = 0

Earlier(p, q) == p.stmt < q.stmt /\ p.jac <= q.jac /\ p.idx <= q.idx

\* Every slot the vector had keeps its value.
SlotsKept == \A i \in 1..Len(adjoints) : adjoints'[i] = adjoints[i]

\* C24: a reverse replay whose start is earlier than its end, and a forward
\* replay whose start is later than its end, is a contract violation, and no
\* adjoint or tangent slot has been modified when it is signalled.
C24_WrongOrderIsViolation ==
  [][\A s \in Positions : \A e \in Positions :
       ( \/ Earlier(s, e) /\ evaluateKeepState(s, e)
         \/ Earlier(e, s) /\ evaluateForwardKeepState(s, e) )
       => ( err' = "ContractViolation" /\ SlotsKept )]_vars

\* A forward replay was refused on a recording with arguments and a seeded
\* vector.
C24_Witness ==
  /\ err = "ContractViolation"
  /\ last.op = "evaluateForward"
  /\ last.id = 0 /\ last.n = 0
  /\ jacUsed > 0
  /\ \E i \in 1..Len(adjoints) : adjoints[i] # 0

\* C25: evaluateKeepState and evaluateForwardKeepState, and evaluate and
\* evaluateForward they delegate to, leave the statement stream, the argument
\* stream, the positions, the index manager, the identifiers and the
\* activity flag as they were; only the adjoint vector changes.
C25_ReplayKeepsRecordedState ==
  [][\A s \in Positions : \A e \in Positions :
       ( evaluateKeepState(s, e) \/ evaluateForwardKeepState(s, e) )
       => ( /\ UNCHANGED <<tapeVars, count, freeList, ident, value, active, savedPos>>
            /\ getPosition' = getPosition
            /\ Len(adjoints') >= Len(adjoints) )]_vars

\* A reverse replay has run statements on a non-zero output adjoint and
\* returned; the recording is still there.
C25_Witness ==
  /\ last.op = "evaluate"
  /\ last.id > 0
  /\ err = "none"
  /\ stmtUsed = 2 /\ jacUsed > 0
  /\ savedPos # getZeroPosition

\* C28: setParameter(LargestIdentifier, v) is refused for every v and leaves
\* the index manager, the two streams and the adjoint vector as they were;
\* setParameter on AdjointSize, JacobianSize and StatementSize is accepted.
C28_LargestIdentifierIsGetOnly ==
  [][\A parameter \in TapeParameters : \A val \in 0..MaxSize :
       setParameter(parameter, val)
       => IF parameter = "LargestIdentifier"
          THEN /\ err' # "none"
               /\ UNCHANGED <<count, freeList, ident, tapeVars, adjoints>>
          ELSE err' = "none"]_vars

\* The write of LargestIdentifier was refused on a tape that holds a
\* recording and has issued identifiers.
C28_Witness ==
  /\ err = "GetOnlyParameter"
  /\ last.op = "setParameter"
  /\ last.n # GetLargestAssignedIndex
  /\ GetLargestAssignedIndex > 0
  /\ stmtUsed > 0
  /\ Len(adjoints) > 1

\* C29: clearAdjoints() leaves every slot of the adjoint vector zero and the
\* vector's size as it was, and clearing the vector it left again gives the
\* same vector.
C29_ClearAdjointsZeroesAndIsIdempotent ==
  /\ [][last'.op = "clearAdjoints"
        => ( /\ Len(adjoints') = Len(adjoints)
             /\ AllZero(adjoints')
             /\ clearAdjointsVec(adjoints') = adjoints' )]_vars
  /\ [][( last.op = "clearAdjoints" /\ last'.op = "clearAdjoints" )
        => adjoints' = adjoints]_vars

\* clearAdjoints was called on a vector of three slots over a recording.
C29_Witness ==
  /\ last.op = "clearAdjoints"
  /\ last.n = 3
  /\ Len(adjoints) = 3
  /\ AllZero(adjoints)
  /\ stmtUsed > 0

C23_HessianCompleteAndSymmetric ==
  last.op = "computeHessianForward"
  => LET hes == last.v
         sweeps == last.id
         inputSize == last.n[1]
     IN /\ \A p \in DOMAIN hes : hes[p] # Unwritten
        /\ \A p \in DOMAIN hes : hes[p] = hes[<<p[1], p[3], p[2]>>]
        /\ \A s \in DOMAIN sweeps : sweeps[s][2] >= sweeps[s][1]
        /\ (last.n[3] = 1 /\ last.n[4] = 1)
           => 2 * Len(sweeps) = inputSize * (inputSize + 1)

\* An assembly for 3 inputs at widths 2 and 2, where the blocks do not
\* divide the inputs and the diagonal block is written from both sides.
C23_Witness ==
  /\ last.op = "computeHessianForward"
  /\ last.n = <<3, 2, 2, 2>>
  /\ Len(last.id) = 3

TapeCalls ==
  \/ reset(TRUE)
  \/ setActive
  \/ setPassive
  \/ registerInput(1)
  \/ \E e \in ExprsIndex : StoreExpr(2, e, 1)
  \/ capturePosition
  \/ resetTo
  \/ gradient(2, 1)
  \/ evaluate(getPosition, savedPos)
  \/ evaluate(getPosition, getZeroPosition)

C31_PrimalAccessIsUnsupported ==
  [][last'.op \in {"primal", "evaluatePrimal"}
          => /\ "raised" \in DOMAIN last' /\ last'.raised = "UnsupportedOperation"
             /\ UNCHANGED <<policy, active, ident, value, refJac, count, freeList,
                            tapeVars, adjoints, savedPos, err>>
             /\ err' = "none"]_vars

\* evaluatePrimal has failed on a tape that holds a recording and a seeded
\* or replayed adjoint vector, and the tape is in no fatal condition.
C31_Witness ==
  /\ "raised" \in DOMAIN last /\ last.op = "evaluatePrimal"
  /\ stmtUsed > 0 /\ adjoints # Zeros(Len(adjoints)) /\ err = "none"

\* What the same store pushes without the merge: both logics on the argument
\* stream itself.
Unmerged(e) ==
  PushDelayedJacobianLogic(e, 1,
    PushJacobianLogic(e, 1, [data |-> jacData, used |-> jacUsed, acc |-> refJac]))

\* The sum of the partials of the entries of identifier i among the entries
\* from+1..to of data.
PartialOf(data, from, to, i) ==
  Merged([k \in 1..(to - from) |-> data[from + k]], i).jac

\* The adjoint vectors and seeds the replay of one statement is compared on.
TestVectors == [1..(MaxIndex + 1) -> {0, 1}]

C34_ReferenceAccumulatorZeroAfterStore ==
  \A e \in ExprsRecord :
    (err = "none" /\ RefPaths(e) # {})
    => IF active
       THEN Recordable(e) => pushJacobians(e).acc = 0
       ELSE refJac = 0

\* The positions of the gradient steps of a component.
GradientSteps(path) == {i \in DOMAIN path : path[i] = "gradient"}

\* C35: for nesting depth n and every order k in 0..n, derivative(v, k, l)
\* for l = 0..binomial(n, k) - 1 selects pairwise distinct components, each
\* reached by exactly k gradient steps and n - k value steps; they are as
\* many as there are k-element subsets of the n nesting levels, the order
\* never goes below 0 on the way, and a type of depth 3 has 1, 3, 3, 1
\* derivatives of the orders 0..3.
C35_SelectionEnumeratesOrder ==
  (last.op = "derivative" /\ "raised" \notin DOMAIN last)
  => LET n == last.selectionDepth
         k == last.order
         picked == last.component
         all == {select(n, k, l2).path : l2 \in 0..(binomial(n, k) - 1)}
     IN /\ k \in 0..n /\ last.l \in 0..(binomial(n, k) - 1)
        /\ Len(picked.path) = n
        /\ Cardinality(GradientSteps(picked.path)) = k
        /\ Cardinality(DOMAIN picked.path \ GradientSteps(picked.path)) = n - k
        /\ ~picked.wrapped /\ picked.order = 0
        /\ \A l2 \in 0..(binomial(n, k) - 1) :
             l2 # last.l => select(n, k, l2).path # picked.path
        /\ {GradientSteps(p) : p \in all} = {S \in SUBSET (1..n) : Cardinality(S) = k}
        /\ Cardinality(all) = binomial(n, k)
        /\ n = 3 => Cardinality(all) = <<1, 3, 3, 1>>[k + 1]

\* The last derivative of order 2 of a type of depth 3 was selected:
\* v.gradient().gradient().value().
C35_Witness ==
  /\ last.op = "derivative" /\ "raised" \notin DOMAIN last
  /\ last.selectionDepth = 3 /\ last.order = 2 /\ last.l = 2
  /\ last.component.path = <<"gradient", "gradient", "value">>

\* Lists of identifiers handed to computeJacobian: one or two identifiers,
\* the identifier of a passive variable included, none of them twice.
IdentifierLists ==
  {l \in UNION {[1..k -> 0..MaxIndex] : k \in 1..2} :
     \A a \in DOMAIN l, b \in DOMAIN l : a # b => l[a] # l[b]}

C37_LinearStatementPerIdentifier ==
  /\ []((IsLinear /\ err = "none") => stmtUsed = GetLargestAssignedIndex)
  /\ [][(IsLinear /\ err' = "none" /\ stmtUsed' = stmtUsed + 1)
        => (last'.v \in Vars /\ ident'[last'.v] = stmtUsed')]_vars

\* resetTo has taken the second statement and its identifier off a Linear
\* tape; a variable still holds the identifier.
C37_Witness ==
  /\ IsLinear /\ err = "none"
  /\ last.op = "resetTo"
  /\ stmtUsed = 1 /\ GetLargestAssignedIndex = 1
  /\ \E v \in Vars : ident[v] = 2

\* C38: while the tape is inactive no recording call (store of an
\* expression, of a variable or of a passive value, registerInput, which
\* registerExternalFunctionOutput forwards to, storeManual) makes the
\* statement stream or the argument stream longer or gives a variable a new
\* identifier.
C38_InactiveRecordsNothing ==
  [][(~active /\ err = "none"
      /\ last'.op \in {"store", "copy", "passive", "registerInput", "storeManual"})
     => ( /\ stmtUsed' <= stmtUsed
          /\ jacUsed' <= jacUsed
          /\ \A v \in Vars : ident'[v] \in {ident[v], UnusedIndex} )]_vars

\* C39: gradient(identifier) const never reads outside the adjoint vector:
\* for every identifier the tape has handed out so far, and for the unused
\* one, it returns the slot of the identifier when the identifier is smaller
\* than the size of the vector and slot 0 otherwise.  (The accessor is a pure
\* function of the vector, so it cannot resize it.)
C39_ConstGradientStaysInside ==
  \A identifier \in 0..GetLargestAssignedIndex :
    LET read == getGradient(adjoints, identifier)
    IN /\ ~read.bad
       /\ read.g = IF identifier < Len(adjoints) THEN adjoints[identifier + 1]
                   ELSE adjoints[1]

\* C40: for each of the keys AdjointSize, JacobianSize and StatementSize,
\* getParameter(key) directly after setParameter(key, v) returns v, and the
\* values getParameter returns for the other keys are as before the call.
C40_ParameterRoundTrip ==
  [][\A parameter \in {"AdjointSize", "JacobianSize", "StatementSize"}, val \in 0..MaxSize :
       setParameter(parameter, val)
       => /\ getParameter(parameter)' = val
          /\ \A other \in TapeParameters \ {parameter} :
               getParameter(other)' = getParameter(other)]_vars

====
